---- MODULE Spec2Model ----
(***************************************************************************)
(* Offloader: the service worker's discard passes (discardTargetTabs,      *)
(* discardAllTabs), its tab-lifecycle handlers and the TabTelemetry store. *)
(*                                                                         *)
(* Granularity: one action per synchronous segment of an async function    *)
(* (from one await to the next).  An IndexedDB request takes effect on the *)
(* object store when its transaction is created, i.e. in the segment that  *)
(* issues it (transactions on one object store run in creation order); the *)
(* caller resumes with the result in its next segment.                     *)
(***************************************************************************)
EXTENDS Integers, Sequences, FiniteSets, TLC

\* ------------------------------------------------------------------------
\* Bounds
\* ------------------------------------------------------------------------
MaxPasses == 1          \* discard passes started in one behaviour
MaxActivations == 1     \* tab activations serviced while passes run
MaxTrackActivations == 3 \* tab activations serviced in the tracking runs
MaxTicks == 1           \* clock advances in one behaviour
MaxMessages == 1        \* configuration messages handled in one behaviour
MaxWrites == 3           \* updateTabMetadata calls in the store-level runs
MaxCallers == 2
MaxInitCalls == 3
MaxCloses == 1
MaxStoreOps == 2
MaxAdminOps == 2        \* purge / clear / stats / export calls in one behaviour
MaxAdminWrites == 2     \* records written while those calls run
MaxRestartActivations == 2  \* activations delivered while and after initialize runs
MaxMsgHandlers == 2     \* handleMessage calls that may be suspended at once
MaxRequests == 3        \* messages delivered in the message runs
MaxTabEvents == 3       \* onCreated / onUpdated events and discards in the tab runs

\* ------------------------------------------------------------------------
\* Program constants
\* ------------------------------------------------------------------------
HourMs == 3600000       \* 60 * 60 * 1000
Null == -1              \* null / undefined for numbers (ids, timestamps)
StartClock == HourMs + 2 \* Date.now() when the worker script is loaded
DayMs == 86400000       \* 24 * 60 * 60 * 1000

\* ------------------------------------------------------------------------
\* Strings are sequences of one-character strings
\* ------------------------------------------------------------------------
UpperSeq == <<"A","B","C","D","E","F","G","H","I","J","K","L","M",
              "N","O","P","Q","R","S","T","U","V","W","X","Y","Z">>
LowerSeq == <<"a","b","c","d","e","f","g","h","i","j","k","l","m",
              "n","o","p","q","r","s","t","u","v","w","x","y","z">>

ToLowerChar(c) ==
  IF \E i \in 1..26 : UpperSeq[i] = c
  THEN LowerSeq[CHOOSE i \in 1..26 : UpperSeq[i] = c]
  ELSE c

\* String.prototype.toLowerCase
ToLowerCase(s) == [i \in 1..Len(s) |-> ToLowerChar(s[i])]

\* String.prototype.startsWith
StartsWith(s, prefix) ==
  /\ Len(prefix) <= Len(s)
  /\ \A i \in 1..Len(prefix) : s[i] = prefix[i]

\* String.prototype.includes
Includes(s, pattern) ==
  \E i \in 0..(Len(s) - Len(pattern)) :
    \A j \in 1..Len(pattern) : s[i + j] = pattern[j]

\* ------------------------------------------------------------------------
\* new URL(u).hostname
\* ------------------------------------------------------------------------
SchemeChars == {LowerSeq[i] : i \in 1..26} \cup {UpperSeq[i] : i \in 1..26}
                 \cup {"+", "-", "."}

ColonAt(u) ==
  IF \E i \in 1..Len(u) : u[i] = ":"
  THEN CHOOSE i \in 1..Len(u) : u[i] = ":" /\ \A k \in 1..(i - 1) : u[k] # ":"
  ELSE 0

HasAuthority(u) ==
  LET c == ColonAt(u) IN c + 2 <= Len(u) /\ u[c + 1] = "/" /\ u[c + 2] = "/"

HostEnd(u) ==
  LET c == ColonAt(u)
      stops == {i \in (c + 3)..Len(u) : u[i] \in {"/", "?", "#"}}
  IN IF stops = {} THEN Len(u)
     ELSE (CHOOSE i \in stops : \A k \in stops : i <= k) - 1

IsSpecialScheme(u) ==
  ToLowerCase(SubSeq(u, 1, ColonAt(u) - 1)) \in
    { <<"h","t","t","p">>, <<"h","t","t","p","s">> }

RawHost(u) == IF HasAuthority(u) THEN SubSeq(u, ColonAt(u) + 3, HostEnd(u)) ELSE <<>>

\* new URL(u) throws a TypeError when u has no scheme, or is http(s) without a host
UrlParses(u) ==
  /\ ColonAt(u) > 1
  /\ \A k \in 1..(ColonAt(u) - 1) : u[k] \in SchemeChars
  /\ IsSpecialScheme(u) => RawHost(u) # <<>>

\* the host of an http(s) URL is lowercased by the parser
UrlHostname(u) == IF IsSpecialScheme(u) THEN ToLowerCase(RawHost(u)) ELSE RawHost(u)

\* ------------------------------------------------------------------------
\* The browser's tabs (chrome.tabs): a fixed tab strip; which tab is active
\* and which tabs are discarded is state
\* ------------------------------------------------------------------------
UrlSlack == <<"h","t","t","p","s",":","/","/","S","l","a","c","k",".","c","o","m","/","x">>
UrlOther == <<"h","t","t","p","s",":","/","/","a",".","i","o">>
UrlInvalid == <<"b","a","d">>
UrlChrome == <<"c","h","r","o","m","e",":","/","/","s">>
UrlExtension == <<"c","h","r","o","m","e","-","e","x","t","e","n","s","i","o","n",":","/","/","e">>
UrlUntrusted == <<"c","h","r","o","m","e","-","u","n","t","r","u","s","t","e","d",":","/","/","u">>

\* key = position in the tab strip; id = Null models a tab without tab.id,
\* hasUrl = FALSE a tab whose url is undefined
TabStrip ==
  << [id |-> 1, hasUrl |-> TRUE,  url |-> UrlSlack],
     [id |-> 2, hasUrl |-> TRUE,  url |-> UrlOther],
     [id |-> 3, hasUrl |-> TRUE,  url |-> UrlInvalid],
     [id |-> 4, hasUrl |-> TRUE,  url |-> UrlChrome],
     [id |-> 5, hasUrl |-> TRUE,  url |-> UrlExtension],
     [id |-> 6, hasUrl |-> TRUE,  url |-> UrlUntrusted],
     [id |-> 7, hasUrl |-> FALSE, url |-> <<>>],
     [id |-> Null, hasUrl |-> TRUE, url |-> UrlSlack],
     [id |-> 9, hasUrl |-> TRUE,  url |-> UrlSlack] >>

ActivatableTabs == {1, 2}      \* tabs the user switches between
InitiallyDiscarded == {9}      \* a tab the browser itself had discarded

\* ------------------------------------------------------------------------
\* shouldSkipTab
\* ------------------------------------------------------------------------
skipPrefixes ==
  { <<"c","h","r","o","m","e",":","/","/">>,
    <<"c","h","r","o","m","e","-","e","x","t","e","n","s","i","o","n",":","/","/">>,
    <<"c","h","r","o","m","e","-","u","n","t","r","u","s","t","e","d",":","/","/">> }

\* a skip test that forgets the discarded flag
shouldSkipTab_ignoresDiscarded(tab) ==
  \/ tab.active
  \/ ~tab.hasUrl \/ tab.id = Null
  \/ \E prefix \in skipPrefixes : StartsWith(tab.url, prefix)

shouldSkipTab(tab) ==
  \/ tab.discarded \/ tab.active
  \/ ~tab.hasUrl \/ tab.id = Null
  \/ \E prefix \in skipPrefixes : StartsWith(tab.url, prefix)

\* ------------------------------------------------------------------------
\* TabMetadata records are functions from field names to values; a field
\* that is undefined is not in the domain.  Undefined == no record at all.
\* ------------------------------------------------------------------------
Undefined == <<>>

\* object spread {...a, ...b}
Spread(a, b) ==
  [f \in (DOMAIN a) \cup (DOMAIN b) |-> IF f \in DOMAIN b THEN b[f] ELSE a[f]]

\* a put that forgets the stored record
MergeMetadata_dropsStored(tabId, existing, metadata, now) ==
  Spread(Spread([tabId |-> tabId, activationCount |-> 0,
                 totalActiveTime |-> 0, wasDiscarded |-> FALSE],
                metadata),
         [lastUpdated |-> now])

\* the record updateTabMetadata puts: defaults, then the stored record, then
\* the partial, then lastUpdated
MergeMetadata(tabId, existing, metadata, now) ==
  Spread(Spread(Spread([tabId |-> tabId, activationCount |-> 0,
                        totalActiveTime |-> 0, wasDiscarded |-> FALSE],
                       existing),
                metadata),
         [lastUpdated |-> now])

VARIABLES
  clock,              \* Date.now()
  ticks,              \* clock advances so far
  db,                 \* TabTelemetry.db: "null" or "open"
  initPromise,        \* TabTelemetry.initPromise: "null", "pending", "resolved"
  tabEvents,          \* object store tabEvents (sequence in key order)
  tabEventsKey,       \* its key generator
  tabMetadata,        \* object store tabMetadata: tabId -> record
  discardEvents,      \* object store discardEvents
  discardEventsKey,   \* its key generator
  config,             \* module variable config
  telemetryFailed,    \* module variable telemetryFailed
  activeTabId,        \* module variable activeTabId
  activeTabStartTime, \* module variable activeTabStartTime
  sessionId,          \* module variable sessionId
  storageLocal,       \* chrome.storage.local
  storageSession,     \* chrome.storage.session
  alarms,             \* chrome.alarms: name -> periodInMinutes
  browserActive,      \* id of the tab the user is viewing
  browserDiscarded,   \* ids of the tabs that are discarded
  init,               \* the running initialize(): position and locals
  pass,               \* the running discard pass: position, locals, trace
  passes,             \* passes started so far
  handlers,           \* running handleTabActivated calls: slot -> locals
  activations,        \* activations serviced so far
  messages,           \* configuration messages handled so far
  writes,             \* store-level updateTabMetadata calls so far
  lastWrite,          \* the last store-level updateTabMetadata: tabId, stored record, partial
  expectedCount,      \* tabId -> activationCount if no activation were lost
  client,             \* the callers of the TabTelemetry API and what they observed
  admin,              \* the running purge / clear / stats / export call and its result
  serviced,           \* the tab events serviced so far and what each handler started from
  msg                 \* the handleMessage calls in flight and the responses sent

telemetryVars == <<db, initPromise>>
eventVars == <<tabEvents, tabEventsKey>>
batchVars == <<discardEvents, discardEventsKey>>
storeVars == <<tabEvents, tabEventsKey, tabMetadata, discardEvents, discardEventsKey, lastWrite>>
trackVars == <<activeTabId, activeTabStartTime, sessionId, storageSession>>
browserVars == <<browserActive, browserDiscarded>>
countVars == <<passes, activations, messages, writes, ticks>>
vars == <<clock, ticks, db, initPromise, tabEvents, tabEventsKey, tabMetadata,
          discardEvents, discardEventsKey, config, telemetryFailed, activeTabId,
          activeTabStartTime, sessionId, storageLocal, storageSession, alarms,
          browserActive, browserDiscarded, init, pass, passes, handlers,
          activations, messages, writes, lastWrite, expectedCount, client, admin, serviced, msg>>

\* ------------------------------------------------------------------------
\* TabTelemetry
\* ------------------------------------------------------------------------
isReady == db # "null"

\* logTabEvent without its `this.db === null' guard
logTabEvent_unguarded(tabId, eventType, data) ==
  /\ tabEvents' = Append(tabEvents,
       Spread([id |-> tabEventsKey, tabId |-> tabId,
               eventType |-> eventType, timestamp |-> clock], data))
  /\ tabEventsKey' = tabEventsKey + 1

\* logTabEvent on a store without a key generator
logTabEvent_reusesKey(tabId, eventType, data) ==
  IF db = "null"
  THEN UNCHANGED eventVars
  ELSE /\ tabEvents' = Append(tabEvents,
            Spread([id |-> tabEventsKey, tabId |-> tabId,
                    eventType |-> eventType, timestamp |-> clock], data))
       /\ UNCHANGED tabEventsKey

\* logTabEvent: a no-op returning undefined when db is null, else one add
logTabEvent(tabId, eventType, data) ==
  IF db = "null"
  THEN UNCHANGED eventVars
  ELSE /\ tabEvents' = Append(tabEvents,
            Spread([id |-> tabEventsKey, tabId |-> tabId,
                    eventType |-> eventType, timestamp |-> clock], data))
       /\ tabEventsKey' = tabEventsKey + 1

\* getTabMetadata: undefined when db is null or no record is stored
getTabMetadata(tabId) ==
  IF db # "null" /\ tabId \in DOMAIN tabMetadata THEN tabMetadata[tabId] ELSE Undefined

\* updateTabMetadata: one readwrite transaction (get, merge, put)
updateTabMetadata(tabId, metadata) ==
  IF db = "null"
  THEN UNCHANGED tabMetadata
  ELSE LET existing == IF tabId \in DOMAIN tabMetadata THEN tabMetadata[tabId] ELSE Undefined
           updated == MergeMetadata(tabId, existing, metadata, clock)
       IN tabMetadata' = [t \in (DOMAIN tabMetadata) \cup {tabId} |->
                            IF t = tabId THEN updated ELSE tabMetadata[t]]

\* logDiscardEvent
logDiscardEvent(discardedTabs, totalTabs) ==
  IF db = "null"
  THEN UNCHANGED batchVars
  ELSE /\ discardEvents' = Append(discardEvents,
            [id |-> discardEventsKey, timestamp |-> clock,
             discardedCount |-> Len(discardedTabs), totalTabs |-> totalTabs,
             tabs |-> discardedTabs])
       /\ discardEventsKey' = discardEventsKey + 1

\* ------------------------------------------------------------------------
\* Configuration (types.ts)
\* ------------------------------------------------------------------------
ALARM_NAME == "discard"
RETENTION_ALARM_NAME == "retention"

PatSharepoint == <<"s","h","a","r","e","p","o","i","n","t">>
PatSlack == <<"s","l","a","c","k">>
PatSlackUpper == <<"S","L","A","C","K">>
PatOther == <<"a",".","i","o">>

DEFAULT_CONFIG ==
  [autoDiscardEnabled |-> TRUE,
   targetSites |-> [site \in {PatSharepoint, PatSlack} |-> TRUE],
   discardInterval |-> 10,
   idleTabThreshold |-> 24,
   dataRetentionDays |-> 30]

isValidDiscardInterval(x) == x \in {5, 10, 15, 30}
isValidIdleThreshold(x) == x \in 0..720
isValidDataRetentionDays(x) == x \in 1..365

\* targetSites values the dashboard may have stored or may send
NoSites == [site \in {} |-> TRUE]
SiteConfigs ==
  { NoSites,
    [site \in {PatSlackUpper, PatOther} |-> site = PatOther] }

\* contents chrome.storage.local may have when the worker starts
StoredConfigs ==
  { [x \in {} |-> 0],
    [targetSites |-> NoSites, idleTabThreshold |-> 1],
    [targetSites |-> [site \in {PatSlackUpper, PatOther} |-> site = PatSlackUpper],
     idleTabThreshold |-> 0, discardInterval |-> 5],
    [autoDiscardEnabled |-> FALSE, idleTabThreshold |-> 721, discardInterval |-> 7] }

\* the config loadConfig builds from the stored values
LoadedConfig(result) ==
  [autoDiscardEnabled |->
     IF "autoDiscardEnabled" \in DOMAIN result THEN result.autoDiscardEnabled
     ELSE DEFAULT_CONFIG.autoDiscardEnabled,
   targetSites |->
     IF "targetSites" \in DOMAIN result THEN result.targetSites
     ELSE DEFAULT_CONFIG.targetSites,
   discardInterval |->
     IF "discardInterval" \in DOMAIN result /\ isValidDiscardInterval(result.discardInterval)
     THEN result.discardInterval ELSE DEFAULT_CONFIG.discardInterval,
   idleTabThreshold |->
     IF "idleTabThreshold" \in DOMAIN result /\ isValidIdleThreshold(result.idleTabThreshold)
     THEN result.idleTabThreshold ELSE DEFAULT_CONFIG.idleTabThreshold,
   dataRetentionDays |->
     IF "dataRetentionDays" \in DOMAIN result /\ isValidDataRetentionDays(result.dataRetentionDays)
     THEN result.dataRetentionDays ELSE DEFAULT_CONFIG.dataRetentionDays]

\* ------------------------------------------------------------------------
\* Initial state: the worker script has just been loaded (module variables at
\* their initialisers, `void initialize()' suspended in its first await);
\* what earlier runs persisted is drawn from bounded sets
\* ------------------------------------------------------------------------
StoredRecord(tabId, extra) ==
  Spread([tabId |-> tabId, activationCount |-> 1, totalActiveTime |-> 0,
          wasDiscarded |-> FALSE, lastUpdated |-> 2], extra)

NoMetadata == [t \in {} |-> Undefined]

\* tabMetadata contents an earlier run may have left: a record of the tab
\* that is active at the start (tab 4) and a tab last active exactly one hour
\* before StartClock (tab 1, with no record for tab 2, or tab 2, with a
\* record for tab 1 that has no lastActive)
StoredMetadata ==
  { [t \in {1, 4} |-> StoredRecord(t, [lastActive |-> 2])],
    [t \in {1, 2, 4} |-> StoredRecord(t, IF t = 1 THEN [x \in {} |-> 0]
                                                  ELSE [lastActive |-> 2])] }

NoAlarms == [n \in {} |-> 0]
StoredAlarms == { NoAlarms, [n \in {ALARM_NAME, RETENTION_ALARM_NAME} |->
                               IF n = ALARM_NAME THEN 10 ELSE 1440] }

IdlePass ==
  [kind |-> "none", pc |-> "idle", tabs |-> <<>>, idx |-> 0,
   enabledPatterns |-> {}, now |-> Null, idleThresholdMs |-> 0,
   discardedTabs |-> <<>>, discardedCount |-> 0, reason |-> "none",
   shouldDiscard |-> FALSE, targetSites |-> [site \in {} |-> TRUE],
   metadata |-> Undefined, guardThreshold |-> Null,
   decisions |-> <<>>, calls |-> <<>>, outcome |-> "none", readySeen |-> FALSE,
   thresholdChanged |-> FALSE,
   log |-> <<>>, eventsBefore |-> 0, batchBefore |-> 0]

FreeHandler ==
  [pc |-> "free", tabId |-> Null, previousTabId |-> Null, activeTime |-> 0,
   metadata |-> Undefined, loading |-> FALSE]

NoWrite == [tabId |-> Null, existing |-> Undefined, metadata |-> Undefined]

\* callers of telemetry.init() and of the store operations
Callers == 1..MaxCallers
Unsettled == [state |-> "none", ready |-> FALSE, waited |-> FALSE]
NoOp == [name |-> "none", ready |-> FALSE, lost |-> FALSE, changed |-> FALSE,
         returned |-> Undefined, readyAfter |-> FALSE]

\* no caller yet: no open request issued, no connection made or lost
NoClient ==
  [opens |-> 0, connections |-> 0, failures |-> 0, closes |-> 0, inits |-> 0,
   joined |-> 0, ops |-> 0, lost |-> FALSE, waiting |-> {},
   settled |-> [c \in Callers |-> Unsettled], lastOp |-> NoOp]

\* no purgeOldData / clearAllData / getStats / exportAllData call made yet
NoRecords == [tabEvents |-> <<>>, tabMetadata |-> NoMetadata, discardEvents |-> <<>>]
NoAdmin ==
  [name |-> "none", pc |-> "idle", ops |-> 0, written |-> 0, purges |-> 0,
   retentionDays |-> 0, now |-> Null, cutoff |-> Null, prevCutoff |-> Null,
   eventsDeleted |-> 0, discardsDeleted |-> 0,
   totalEvents |-> 0, totalTabs |-> 0, totalDiscards |-> 0,
   exported |-> NoRecords, exportDate |-> Null,
   before |-> NoRecords, swept |-> NoRecords, idx |-> 0,
   statsOf |-> NoRecords, statsClean |-> FALSE,
   exportOf |-> NoRecords, exportClean |-> FALSE, cleared |-> FALSE,
   dirty |-> FALSE, dirtySincePurge |-> FALSE, dirtyBetween |-> FALSE]

HandlerSlots == 1..MaxTrackActivations

\* handleMessage: no call is running
MsgSlots == 1..MaxMsgHandlers
FreeMsg == [pc |-> "free", id |-> 0, action |-> "none"]
NoMsg == [requests |-> 0, slots |-> [h \in MsgSlots |-> FreeMsg], replies |-> <<>>,
          overlapped |-> FALSE]

InitShared ==
  /\ clock = StartClock
  /\ ticks = 0
  /\ tabEvents = <<>>
  /\ tabEventsKey = 1
  /\ discardEvents = <<>>
  /\ discardEventsKey = 1
  /\ browserActive = 4
  /\ browserDiscarded = InitiallyDiscarded
  /\ pass = IdlePass
  /\ passes = 0
  /\ handlers = [h \in HandlerSlots |-> FreeHandler]
  /\ activations = 0
  /\ messages = 0
  /\ writes = 0
  /\ lastWrite = NoWrite
  /\ client = NoClient
  /\ admin = NoAdmin
  /\ serviced = <<>>
  /\ msg = NoMsg

\* the worker script has just been loaded
InitLoad ==
  /\ InitShared
  /\ activeTabId = Null
  /\ activeTabStartTime = Null
  /\ sessionId = Null
  /\ storageSession = [x \in {} |-> 0]
  /\ config = DEFAULT_CONFIG
  /\ telemetryFailed = FALSE
  /\ db = "null"
  /\ initPromise = "null"
  /\ tabMetadata \in StoredMetadata
  /\ storageLocal \in StoredConfigs
  /\ alarms \in StoredAlarms
  /\ init = [pc |-> "loadSession", result |-> storageSession, openFailed |-> FALSE]
  /\ expectedCount = [t \in DOMAIN tabMetadata |-> tabMetadata[t].activationCount]

\* the alarms initialize leaves behind for a loaded config
AlarmsAfterInitialize(loaded) ==
  [n \in (IF loaded.autoDiscardEnabled THEN {ALARM_NAME} ELSE {}) \cup {RETENTION_ALARM_NAME} |->
     IF n = ALARM_NAME THEN loaded.discardInterval ELSE 24 * 60]

\* the worker was restarted within a browser session and initialize() has
\* returned: the active tab state saved by handleTabActivated is restored,
\* the stored config is loaded, the alarms are set, the store is open or its
\* open request failed
Init ==
  /\ InitShared
  /\ activeTabId = browserActive
  /\ activeTabStartTime = 2
  /\ sessionId = 1
  /\ storageSession = [activeTabId |-> activeTabId, activeTabStartTime |-> 2,
                       sessionId |-> 1]
  /\ storageLocal \in StoredConfigs
  /\ config = LoadedConfig(storageLocal)
  /\ db \in {"open", "null"}
  /\ initPromise = (IF db = "open" THEN "resolved" ELSE "null")
  /\ telemetryFailed = (db = "null")
  /\ tabMetadata \in StoredMetadata
  /\ alarms = AlarmsAfterInitialize(config)
  /\ init = [pc |-> "done", result |-> [existing |-> FALSE], openFailed |-> db = "null"]
  /\ expectedCount = [t \in DOMAIN tabMetadata |-> tabMetadata[t].activationCount]

\* ------------------------------------------------------------------------
\* initialize (loadActiveTabState, telemetry.init, loadConfig,
\* startAutoDiscard, setupRetentionAlarm), one action per await
\* ------------------------------------------------------------------------
OrNull(result, key) == IF key \in DOMAIN result THEN result[key] ELSE Null

\* `session-${Date.now()}-${random}`; the random suffix is not modelled
GenerateSessionId == clock

\* telemetry.init() as called by initialize: returns at once on an open db,
\* otherwise joins or starts the open request
InitCallsTelemetryInit ==
  IF db # "null"
  THEN /\ telemetryFailed' = FALSE
       /\ init' = [init EXCEPT !.pc = "config", !.result = storageLocal]
       /\ UNCHANGED <<initPromise, client>>
  ELSE /\ initPromise' = "pending"
       /\ client' = [client EXCEPT !.opens = IF initPromise = "null" THEN @ + 1 ELSE @]
       /\ init' = [init EXCEPT !.pc = "telemetry"]
       /\ UNCHANGED telemetryFailed

\* loadActiveTabState resumes with the result of chrome.storage.session.get
InitSessionLoaded ==
  /\ init.pc = "loadSession"
  /\ activeTabId' = OrNull(init.result, "activeTabId")
  /\ activeTabStartTime' = OrNull(init.result, "activeTabStartTime")
  /\ IF OrNull(init.result, "sessionId") = Null
     THEN /\ sessionId' = GenerateSessionId
          /\ storageSession' = Spread(storageSession, [sessionId |-> GenerateSessionId])
          /\ init' = [init EXCEPT !.pc = "saveSession"]
          /\ UNCHANGED <<initPromise, telemetryFailed, client>>
     ELSE /\ sessionId' = init.result.sessionId
          /\ UNCHANGED storageSession
          /\ InitCallsTelemetryInit
  /\ UNCHANGED <<clock, db, storeVars, config, storageLocal, alarms, browserVars,
                 pass, handlers, countVars, expectedCount, admin, serviced, msg>>

\* chrome.storage.session.set({sessionId}) completed
InitSessionSaved ==
  /\ init.pc = "saveSession"
  /\ InitCallsTelemetryInit
  /\ UNCHANGED <<clock, db, storeVars, config, trackVars, storageLocal, alarms,
                 browserVars, pass, handlers, countVars, expectedCount, admin, serviced, msg>>

\* where initialize goes after `await telemetry.init()', resolved or rejected
AfterTelemetryInit_rethrows(failed) == IF failed THEN "aborted" ELSE "config"

AfterTelemetryInit(failed) == "config"

\* every caller awaiting the pending initPromise observes its settlement
Settle(cl, state, ready) ==
  [cl EXCEPT !.waiting = {},
             !.settled = [c \in Callers |->
                            IF c \in cl.waiting
                            THEN [state |-> state, ready |-> ready, waited |-> TRUE]
                            ELSE cl.settled[c]]]

\* request.onerror: this.initPromise = null, so that a later init() opens again
PromiseAfterError_keepsRejected(p) == "rejected"
PromiseAfterError(p) == "null"

\* db.onclose: this.initPromise = null together with this.db = null
PromiseAfterClose_keepsResolved(p) == p
PromiseAfterClose(p) == "null"

\* request.onsuccess of indexedDB.open; initialize resumes and calls loadConfig
OpenSucceeds ==
  /\ initPromise = "pending"
  /\ db' = "open"
  /\ initPromise' = "resolved"
  /\ client' = [Settle(client, "resolved", TRUE) EXCEPT !.connections = @ + 1,
                                                         !.lost = FALSE]
  /\ IF init.pc = "telemetry"
     THEN /\ telemetryFailed' = FALSE
          /\ init' = [init EXCEPT !.pc = AfterTelemetryInit(FALSE), !.result = storageLocal]
     ELSE UNCHANGED <<telemetryFailed, init>>
  /\ pass' = IF pass.pc # "idle" THEN [pass EXCEPT !.readySeen = TRUE] ELSE pass
  /\ UNCHANGED <<clock, storeVars, config, trackVars, storageLocal, alarms,
                 browserVars, handlers, countVars, expectedCount, admin, serviced, msg>>

\* request.onerror of indexedDB.open; initialize catches the rejection
OpenFails ==
  /\ initPromise = "pending"
  /\ initPromise' = PromiseAfterError(initPromise)
  /\ client' = [Settle(client, "rejected", FALSE) EXCEPT !.failures = @ + 1]
  /\ IF init.pc = "telemetry"
     THEN /\ telemetryFailed' = TRUE
          /\ init' = [init EXCEPT !.pc = AfterTelemetryInit(TRUE), !.result = storageLocal,
                                  !.openFailed = TRUE]
     ELSE UNCHANGED <<telemetryFailed, init>>
  /\ UNCHANGED <<clock, db, storeVars, config, trackVars, storageLocal, alarms,
                 browserVars, pass, handlers, countVars, expectedCount, admin, serviced, msg>>

WithoutAlarm(name) == [n \in (DOMAIN alarms) \ {name} |-> alarms[n]]
WithAlarm(name, period) ==
  [n \in (DOMAIN alarms) \cup {name} |-> IF n = name THEN period ELSE alarms[n]]

\* loadConfig resumes with chrome.storage.local.get; then startAutoDiscard
\* (alarms.clear) if enabled, else setupRetentionAlarm (alarms.get)
InitConfigLoaded ==
  /\ init.pc = "config"
  /\ config' = LoadedConfig(init.result)
  /\ IF config'.autoDiscardEnabled
     THEN /\ alarms' = WithoutAlarm(ALARM_NAME)
          /\ init' = [init EXCEPT !.pc = "alarmClear"]
     ELSE /\ init' = [init EXCEPT !.pc = "retentionGet",
                                  !.result = [existing |-> RETENTION_ALARM_NAME \in DOMAIN alarms]]
          /\ UNCHANGED alarms
  /\ pass' = IF pass.pc # "idle" /\ config'.idleTabThreshold # config.idleTabThreshold
             THEN [pass EXCEPT !.thresholdChanged = TRUE] ELSE pass
  /\ UNCHANGED <<clock, telemetryVars, storeVars, telemetryFailed, trackVars,
                 storageLocal, browserVars, handlers, countVars, expectedCount, client, admin, serviced, msg>>

\* startAutoDiscard: alarms.clear done, alarms.create issued
InitAlarmCleared ==
  /\ init.pc = "alarmClear"
  /\ alarms' = WithAlarm(ALARM_NAME, config.discardInterval)
  /\ init' = [init EXCEPT !.pc = "alarmCreate"]
  /\ UNCHANGED <<clock, telemetryVars, storeVars, config, telemetryFailed, trackVars,
                 storageLocal, browserVars, pass, handlers, countVars, expectedCount, client, admin, serviced, msg>>

\* startAutoDiscard returned; setupRetentionAlarm issues alarms.get
InitAlarmCreated ==
  /\ init.pc = "alarmCreate"
  /\ init' = [init EXCEPT !.pc = "retentionGet",
                          !.result = [existing |-> RETENTION_ALARM_NAME \in DOMAIN alarms]]
  /\ UNCHANGED <<clock, telemetryVars, storeVars, config, telemetryFailed, trackVars,
                 storageLocal, alarms, browserVars, pass, handlers, countVars, expectedCount, client, admin, serviced, msg>>

\* setupRetentionAlarm: create the daily alarm unless one exists
InitRetentionChecked ==
  /\ init.pc = "retentionGet"
  /\ IF init.result.existing
     THEN /\ init' = [init EXCEPT !.pc = "done"]
          /\ UNCHANGED alarms
     ELSE /\ alarms' = WithAlarm(RETENTION_ALARM_NAME, 24 * 60)
          /\ init' = [init EXCEPT !.pc = "retentionCreate"]
  /\ UNCHANGED <<clock, telemetryVars, storeVars, config, telemetryFailed, trackVars,
                 storageLocal, browserVars, pass, handlers, countVars, expectedCount, client, admin, serviced, msg>>

InitRetentionCreated ==
  /\ init.pc = "retentionCreate"
  /\ init' = [init EXCEPT !.pc = "done"]
  /\ UNCHANGED <<clock, telemetryVars, storeVars, config, telemetryFailed, trackVars,
                 storageLocal, alarms, browserVars, pass, handlers, countVars, expectedCount, client, admin, serviced, msg>>

Initialize ==
  \/ InitSessionLoaded \/ InitSessionSaved \/ InitConfigLoaded \/ InitAlarmCleared
  \/ InitAlarmCreated \/ InitRetentionChecked \/ InitRetentionCreated

\* ------------------------------------------------------------------------
\* handleMessage: the configuration actions that have no await
\* ------------------------------------------------------------------------
MessageThresholds == {0, 1}

UpdateIdleThreshold(threshold) ==
  /\ messages < MaxMessages
  /\ messages' = messages + 1
  /\ config' = IF isValidIdleThreshold(threshold)
               THEN [config EXCEPT !.idleTabThreshold = threshold] ELSE config
  /\ pass' = IF pass.pc # "idle" /\ config'.idleTabThreshold # config.idleTabThreshold
             THEN [pass EXCEPT !.thresholdChanged = TRUE] ELSE pass
  /\ UNCHANGED <<clock, ticks, telemetryVars, storeVars, telemetryFailed, trackVars,
                 storageLocal, alarms, browserVars, init, passes, handlers,
                 activations, writes, expectedCount, client, admin, serviced, msg>>

UpdateTargetSites(targetSites) ==
  /\ messages < MaxMessages
  /\ messages' = messages + 1
  /\ config' = [config EXCEPT !.targetSites = targetSites]
  /\ UNCHANGED <<clock, ticks, telemetryVars, storeVars, telemetryFailed, trackVars,
                 storageLocal, alarms, browserVars, init, pass, passes, handlers,
                 activations, writes, expectedCount, client, admin, serviced, msg>>

\* time passes
Tick ==
  /\ ticks < MaxTicks
  /\ ticks' = ticks + 1
  /\ clock' = clock + 1
  /\ UNCHANGED <<telemetryVars, storeVars, config, telemetryFailed, trackVars,
                 storageLocal, alarms, browserVars, init, pass, passes, handlers,
                 activations, messages, writes, expectedCount, client, admin, serviced, msg>>

\* ------------------------------------------------------------------------
\* The discard passes: discardTargetTabs (kind "auto", started by the discard
\* alarm) and discardAllTabs (kind "manual", started by the discardAll
\* message).  pass.decisions and pass.calls record what the pass decided for
\* each tab of its queried list and each chrome.tabs.discard call it made.
\* ------------------------------------------------------------------------

\* chrome.tabs.query({}): the tab strip with the current flags
QueryTabs ==
  [i \in 1..Len(TabStrip) |->
     [id |-> TabStrip[i].id, hasUrl |-> TabStrip[i].hasUrl, url |-> TabStrip[i].url,
      active |-> TabStrip[i].id # Null /\ TabStrip[i].id = browserActive,
      discarded |-> TabStrip[i].id \in browserDiscarded]]

\* the patterns without the filter on the enabled flag
EnabledPatterns_ignoresFlag(targetSites) ==
  { ToLowerCase(site) : site \in DOMAIN targetSites }

\* Object.entries(config.targetSites).filter(enabled).map(toLowerCase)
EnabledPatterns(targetSites) ==
  { ToLowerCase(site) : site \in { x \in DOMAIN targetSites : targetSites[x] } }

\* enabledPatterns.some((pattern) => hostname.includes(pattern))
matchesSite(hostname, enabledPatterns) ==
  \E pattern \in enabledPatterns : Includes(hostname, pattern)

\* check 2 entered although check 1 matched
IdleCheckWanted_ignoresMatch(shouldDiscard, idleTabThreshold) ==
  idleTabThreshold > 0

\* check 2 entered although the threshold is 0
IdleCheckWanted_ignoresThreshold(shouldDiscard, idleTabThreshold) ==
  ~shouldDiscard

\* the guard of check 2
IdleCheckWanted(shouldDiscard, idleTabThreshold) ==
  ~shouldDiscard /\ idleTabThreshold > 0

\* idle at exactly the threshold
IsIdle_atThreshold(metadata, now, idleThresholdMs) ==
  /\ "lastActive" \in DOMAIN metadata
  /\ now - metadata.lastActive >= idleThresholdMs

\* metadata?.lastActive !== undefined && now - metadata.lastActive > idleThresholdMs
IsIdle(metadata, now, idleThresholdMs) ==
  /\ "lastActive" \in DOMAIN metadata
  /\ now - metadata.lastActive > idleThresholdMs

Decision(i, outcome, guardThreshold, ready, looked, metadata) ==
  [idx |-> i, outcome |-> outcome, guardThreshold |-> guardThreshold, ready |-> ready,
   looked |-> looked, lastActive |-> OrNull(metadata, "lastActive")]

Decide(p, d) == [p EXCEPT !.decisions = Append(@, d)]

\* chrome.tabs.discard(tabId) is called; the pass awaits the result
Invoke(p, i, reason, d) ==
  [Decide(p, d) EXCEPT
     !.pc = "discard", !.idx = i, !.reason = reason,
     !.calls = Append(@, [idx |-> i, tabId |-> p.tabs[i].id, reason |-> reason,
                          active |-> p.tabs[i].id = browserActive]),
     !.log = Append(@, [op |-> "call", idx |-> i, at |-> Null])]

\* the end of one loop iteration of discardTargetTabs: `if (shouldDiscard)'
Conclude(p, i, shouldDiscard, reason, d) ==
  IF shouldDiscard THEN Invoke(p, i, reason, d) ELSE Decide(p, d)

\* the loop body from tab i up to the next await (or the end of the list);
\* store is tabMetadata as getTabMetadata would read it
RECURSIVE Walk(_, _, _)
Walk(p, i, store) ==
  IF i > Len(p.tabs) THEN [p EXCEPT !.pc = "end", !.idx = i]
  ELSE LET tab == p.tabs[i] IN
    IF shouldSkipTab(tab)
    THEN Walk(Decide(p, Decision(i, "skip", Null, FALSE, FALSE, Undefined)), i + 1, store)
    ELSE IF p.kind = "manual"
    THEN Invoke(p, i, "manual", Decision(i, "manual", Null, FALSE, FALSE, Undefined))
    ELSE IF ~UrlParses(tab.url)
    THEN Walk(Decide(p, Decision(i, "invalid", Null, FALSE, FALSE, Undefined)), i + 1, store)
    ELSE
      LET shouldDiscard == matchesSite(ToLowerCase(UrlHostname(tab.url)), p.enabledPatterns)
          outcome == IF shouldDiscard THEN "site-match" ELSE "none"
      IN IF IdleCheckWanted(shouldDiscard, config.idleTabThreshold)
         THEN IF isReady
              THEN [p EXCEPT !.pc = "meta", !.idx = i, !.shouldDiscard = shouldDiscard,
                             !.guardThreshold = config.idleTabThreshold,
                             !.metadata = IF tab.id \in DOMAIN store THEN store[tab.id]
                                          ELSE Undefined]
              ELSE LET w == Conclude(p, i, shouldDiscard, "site-match",
                                 Decision(i, outcome, config.idleTabThreshold, FALSE,
                                          FALSE, Undefined))
                   IN IF shouldDiscard THEN w ELSE Walk(w, i + 1, store)
         ELSE LET w == Conclude(p, i, shouldDiscard, "site-match",
                            Decision(i, outcome,
                                     IF shouldDiscard THEN Null ELSE config.idleTabThreshold,
                                     FALSE, FALSE, Undefined))
              IN IF shouldDiscard THEN w ELSE Walk(w, i + 1, store)

\* a batch record that is written whether or not a tab was discarded
BatchWanted_always(discardedTabs, ready) == ready

\* `if (discardedTabs.length > 0 && telemetry.isReady())'
BatchWanted(discardedTabs, ready) == Len(discardedTabs) > 0 /\ ready

\* a bookkeeping record that counts the discard calls made
LastRunInfo_countsCalls(p, now) ==
  [lastRun |-> now, lastDiscardedCount |-> Len(p.calls)]

\* {lastRun: Date.now(), lastDiscardedCount: discardedTabs.length}
LastRunInfo(p, now) ==
  [lastRun |-> now, lastDiscardedCount |-> Len(p.discardedTabs)]

\* a manual pass that keeps the books like an automatic one
Finish_alwaysBookkeeping(p) ==
  /\ IF BatchWanted(p.discardedTabs, isReady)
     THEN logDiscardEvent(p.discardedTabs, Len(p.tabs))
     ELSE UNCHANGED batchVars
  /\ storageLocal' = Spread(storageLocal, LastRunInfo(p, clock))
  /\ pass' = [p EXCEPT !.pc = "save"]

\* after the loop: the batch record and chrome.storage.local.set with the
\* last-run bookkeeping (auto), or the count returned to handleMessage (manual)
Finish(p) ==
  IF p.kind = "auto"
  THEN /\ IF BatchWanted(p.discardedTabs, isReady)
          THEN logDiscardEvent(p.discardedTabs, Len(p.tabs))
          ELSE UNCHANGED batchVars
       /\ storageLocal' = Spread(storageLocal, LastRunInfo(p, clock))
       /\ pass' = [p EXCEPT !.pc = "save"]
  ELSE /\ UNCHANGED <<batchVars, storageLocal>>
       /\ pass' = [p EXCEPT !.pc = "respond"]

\* run the loop from tab i and suspend or finish
Resume(p, i, store) ==
  LET w == Walk(p, i, store) IN
    IF w.pc = "end" THEN Finish(w)
    ELSE /\ pass' = w
         /\ UNCHANGED <<batchVars, storageLocal>>

\* the discard alarm fires (discardTargetTabs) or a discardAll message
\* arrives (discardAllTabs): chrome.tabs.query is issued
PassBegun(kind) ==
  /\ pass.pc = "idle"
  /\ passes < MaxPasses
  /\ kind = "auto" => ALARM_NAME \in DOMAIN alarms
  /\ passes' = passes + 1
  /\ pass' = [IdlePass EXCEPT !.kind = kind, !.pc = "query", !.readySeen = isReady,
                              !.eventsBefore = Len(tabEvents),
                              !.batchBefore = Len(discardEvents)]

PassStart(kind) ==
  /\ PassBegun(kind)
  /\ UNCHANGED <<clock, ticks, telemetryVars, storeVars, config, telemetryFailed,
                 trackVars, storageLocal, alarms, browserVars, init, handlers,
                 activations, messages, writes, expectedCount, client, admin, serviced, msg>>

\* chrome.tabs.query resolved: the locals are computed and the loop begins
PassQueryDone ==
  /\ pass.pc = "query"
  /\ Resume([pass EXCEPT !.tabs = QueryTabs,
                         !.targetSites = config.targetSites,
                         !.enabledPatterns = EnabledPatterns(config.targetSites),
                         !.now = clock,
                         !.idleThresholdMs = config.idleTabThreshold * 60 * 60 * 1000,
                         !.thresholdChanged = FALSE],
            1, tabMetadata)
  /\ UNCHANGED <<clock, telemetryVars, eventVars, tabMetadata, lastWrite, config,
                 telemetryFailed, trackVars, alarms, browserVars, init, handlers,
                 countVars, expectedCount, client, admin, serviced, msg>>

\* chrome.tabs.query rejected: discardTargetTabs logs it, discardAllTabs
\* throws into handleMessage, which answers {success: false}
PassQueryFails ==
  /\ pass.pc = "query"
  /\ pass' = [IdlePass EXCEPT !.outcome = "queryFailed", !.kind = pass.kind]
  /\ UNCHANGED <<clock, telemetryVars, storeVars, config, telemetryFailed, trackVars,
                 storageLocal, alarms, browserVars, init, handlers, countVars,
                 expectedCount, client, admin, serviced, msg>>

\* getTabMetadata resolved for tab pass.idx: the idle decision
PassMetadataRead ==
  /\ pass.pc = "meta"
  /\ LET i == pass.idx
         idle == IsIdle(pass.metadata, pass.now, pass.idleThresholdMs)
         shouldDiscard == pass.shouldDiscard \/ idle
         reason == IF idle THEN "idle" ELSE "site-match"
         d == Decision(i, IF shouldDiscard THEN reason ELSE "none",
                       pass.guardThreshold, TRUE, TRUE, pass.metadata)
     IN IF shouldDiscard
        THEN /\ pass' = Invoke(pass, i, reason, d)
             /\ UNCHANGED <<batchVars, storageLocal>>
        ELSE Resume(Decide(pass, d), i + 1, tabMetadata)
  /\ UNCHANGED <<clock, telemetryVars, eventVars, tabMetadata, lastWrite, config,
                 telemetryFailed, trackVars, alarms, browserVars, init, handlers,
                 countVars, expectedCount, client, admin, serviced, msg>>

\* a pass that forgets the tab it has discarded
CountDiscard_forgets(p, info) == p

\* discardedTabs.push(info) in discardTargetTabs, discardedCount++ in
\* discardAllTabs
CountDiscard(p, info) ==
  IF p.kind = "auto"
  THEN [p EXCEPT !.discardedTabs = Append(@, info)]
  ELSE [p EXCEPT !.discardedCount = @ + 1]

\* a trace in which the metadata mark is issued before the event
Resolved_marksFirst(p, i, ready) ==
  [p EXCEPT !.log = @ \o <<[op |-> "resolved", idx |-> i, at |-> Null]>> \o
                    (IF ready THEN <<[op |-> "mark", idx |-> i, at |-> clock],
                                     [op |-> "event", idx |-> i, at |-> clock]>>
                     ELSE <<>>)]

\* the trace of a resolved discard: the telemetry writes are issued, event
\* first, only when the store is ready
Resolved(p, i, ready) ==
  [p EXCEPT !.log = @ \o <<[op |-> "resolved", idx |-> i, at |-> Null]>> \o
                    (IF ready THEN <<[op |-> "event", idx |-> i, at |-> clock],
                                     [op |-> "mark", idx |-> i, at |-> clock]>>
                     ELSE <<>>)]

\* a loop that a rejected discard ends
AfterRejection_aborts(p) == Len(p.tabs) + 1

\* the catch of a rejected discard logs it; the loop goes on with the next tab
AfterRejection(p) == p.idx + 1

\* chrome.tabs.discard resolved: count the tab, write the telemetry (not
\* awaited), go on with the next tab
PassDiscardDone ==
  /\ pass.pc = "discard"
  /\ LET i == pass.idx
         tab == pass.tabs[i]
         info == [url |-> tab.url, domain |-> UrlHostname(tab.url), title |-> "Untitled",
                  timeSinceLastActive |-> Null, reason |-> pass.reason]
         p == Resolved(CountDiscard(pass, info), i, isReady)
     IN /\ browserDiscarded' = browserDiscarded \cup {tab.id}
        /\ IF isReady
           THEN /\ logTabEvent(tab.id, "discarded",
                     IF pass.kind = "auto"
                     THEN [url |-> tab.url, reason |-> pass.reason]
                     ELSE [url |-> tab.url, manual |-> TRUE])
                /\ updateTabMetadata(tab.id, [wasDiscarded |-> TRUE, discardedAt |-> clock])
           ELSE UNCHANGED <<eventVars, tabMetadata>>
        /\ Resume(p, i + 1, tabMetadata')
  /\ UNCHANGED <<clock, telemetryVars, lastWrite, config, telemetryFailed, trackVars,
                 alarms, browserActive, init, handlers, countVars, expectedCount, client, admin, serviced, msg>>

\* chrome.tabs.discard rejected: logged, the loop goes on
PassDiscardFails ==
  /\ pass.pc = "discard"
  /\ Resume([pass EXCEPT !.log = Append(@, [op |-> "rejected", idx |-> pass.idx,
                                            at |-> Null])],
            AfterRejection(pass), tabMetadata)
  /\ UNCHANGED <<clock, telemetryVars, eventVars, tabMetadata, lastWrite, config,
                 telemetryFailed, trackVars, alarms, browserVars, init, handlers,
                 countVars, expectedCount, client, admin, serviced, msg>>

\* chrome.storage.local.set resolved: discardTargetTabs returns
PassSaved ==
  /\ pass.pc = "save"
  /\ pass' = [IdlePass EXCEPT !.outcome = "completed"]
  /\ UNCHANGED <<clock, telemetryVars, storeVars, config, telemetryFailed, trackVars,
                 storageLocal, alarms, browserVars, init, handlers, countVars,
                 expectedCount, client, admin, serviced, msg>>

\* discardAllTabs returned its count: handleMessage answers {success, count}
PassResponded ==
  /\ pass.pc = "respond"
  /\ pass' = [IdlePass EXCEPT !.outcome = "responded"]
  /\ UNCHANGED <<clock, telemetryVars, storeVars, config, telemetryFailed, trackVars,
                 storageLocal, alarms, browserVars, init, handlers, countVars,
                 expectedCount, client, admin, serviced, msg>>

Pass ==
  \/ PassQueryDone \/ PassQueryFails \/ PassMetadataRead
  \/ PassDiscardDone \/ PassDiscardFails \/ PassSaved \/ PassResponded

\* ------------------------------------------------------------------------
\* chrome.tabs.onActivated and handleTabActivated, one action per await
\* ------------------------------------------------------------------------
FreeSlot == CHOOSE h \in HandlerSlots :
              handlers[h].pc = "free" /\ \A k \in HandlerSlots : handlers[k].pc = "free" => h <= k

\* the tracked pair after the synchronous head of handleTabActivated:
\* activeTabId = activeInfo.tabId; activeTabStartTime = Date.now()
TrackedAfter_keepsPrevious(t) ==
  [activeTabId |-> activeTabId, activeTabStartTime |-> activeTabStartTime]
TrackedAfter(t) == [activeTabId |-> t, activeTabStartTime |-> clock]

\* the user switches to tab t; the handler runs up to its first await
TabActivated(t, limit) ==
  /\ activations < limit
  /\ t # browserActive
  /\ \E h \in HandlerSlots : handlers[h].pc = "free"
  /\ activations' = activations + 1
  /\ browserActive' = t
  /\ browserDiscarded' = browserDiscarded \ {t}
  /\ activeTabId' = TrackedAfter(t).activeTabId
  /\ activeTabStartTime' = TrackedAfter(t).activeTabStartTime
  /\ storageSession' = Spread(storageSession,
       [activeTabId |-> TrackedAfter(t).activeTabId,
        activeTabStartTime |-> TrackedAfter(t).activeTabStartTime,
        sessionId |-> sessionId])
  /\ UNCHANGED sessionId
  /\ IF ~isReady
     THEN UNCHANGED <<eventVars, handlers, expectedCount>>
     ELSE /\ expectedCount' = [x \in DOMAIN expectedCount |->
                                 IF x = t THEN expectedCount[x] + 1 ELSE expectedCount[x]]
          /\ IF activeTabId # Null /\ activeTabStartTime # Null
             THEN /\ logTabEvent(activeTabId, "deactivated",
                                 [activeTime |-> clock - activeTabStartTime])
                  /\ handlers' = [handlers EXCEPT ![FreeSlot] =
                       [pc |-> "logDeactivated", tabId |-> t, previousTabId |-> activeTabId,
                        activeTime |-> clock - activeTabStartTime, metadata |-> Undefined,
                        loading |-> FALSE]]
             ELSE /\ logTabEvent(t, "activated", [x \in {} |-> 0])
                  /\ handlers' = [handlers EXCEPT ![FreeSlot] =
                       [FreeHandler EXCEPT !.pc = "logActivated", !.tabId = t]]
  /\ serviced' = Append(serviced,
       [event |-> "activated", tabId |-> t, at |-> clock, ready |-> isReady,
        previousTabId |-> activeTabId, previousStartTime |-> activeTabStartTime,
        restored |-> init.pc # "loadSession", url |-> <<>>, loading |-> FALSE])
  /\ UNCHANGED <<clock, ticks, telemetryVars, tabMetadata, lastWrite, batchVars, config,
                 telemetryFailed, storageLocal, alarms, init, pass, passes, messages,
                 writes, client, admin, msg>>

HandlerFrame ==
  UNCHANGED <<clock, telemetryVars, batchVars, lastWrite, config, telemetryFailed, trackVars,
              storageLocal, alarms, browserVars, init, pass, countVars, expectedCount, client, admin, serviced, msg>>

\* logTabEvent(previousTabId, 'deactivated') resolved; getTabMetadata(previousTabId)
HandlerDeactivatedLogged(h) ==
  /\ handlers[h].pc = "logDeactivated"
  /\ handlers' = [handlers EXCEPT ![h].pc = "getPrevious",
                                  ![h].metadata = getTabMetadata(handlers[h].previousTabId)]
  /\ UNCHANGED <<eventVars, tabMetadata>>
  /\ HandlerFrame

\* the previous tab's record was read: add the active time, or go on to the
\* activated event when there is no record
HandlerPreviousRead(h) ==
  /\ handlers[h].pc = "getPrevious"
  /\ IF handlers[h].metadata # Undefined
     THEN /\ updateTabMetadata(handlers[h].previousTabId,
               [totalActiveTime |-> handlers[h].metadata.totalActiveTime + handlers[h].activeTime,
                lastActive |-> clock])
          /\ handlers' = [handlers EXCEPT ![h].pc = "updatePrevious"]
          /\ UNCHANGED eventVars
     ELSE /\ logTabEvent(handlers[h].tabId, "activated", [x \in {} |-> 0])
          /\ handlers' = [handlers EXCEPT ![h].pc = "logActivated"]
          /\ UNCHANGED tabMetadata
  /\ HandlerFrame

\* updateTabMetadata(previousTabId) resolved; logTabEvent(tabId, 'activated')
HandlerPreviousUpdated(h) ==
  /\ handlers[h].pc = "updatePrevious"
  /\ logTabEvent(handlers[h].tabId, "activated", [x \in {} |-> 0])
  /\ handlers' = [handlers EXCEPT ![h].pc = "logActivated"]
  /\ UNCHANGED tabMetadata
  /\ HandlerFrame

\* logTabEvent(tabId, 'activated') resolved; getTabMetadata(tabId)
HandlerActivatedLogged(h) ==
  /\ handlers[h].pc = "logActivated"
  /\ handlers' = [handlers EXCEPT ![h].pc = "getActivated",
                                  ![h].metadata = getTabMetadata(handlers[h].tabId)]
  /\ UNCHANGED <<eventVars, tabMetadata>>
  /\ HandlerFrame

\* the activated tab's record was read: write activationCount + 1
HandlerActivatedRead(h) ==
  /\ handlers[h].pc = "getActivated"
  /\ IF handlers[h].metadata # Undefined
     THEN /\ updateTabMetadata(handlers[h].tabId,
               [activationCount |-> handlers[h].metadata.activationCount + 1,
                lastActive |-> clock])
          /\ handlers' = [handlers EXCEPT ![h].pc = "updateActivated"]
     ELSE /\ handlers' = [handlers EXCEPT ![h] = FreeHandler]
          /\ UNCHANGED tabMetadata
  /\ UNCHANGED eventVars
  /\ HandlerFrame

\* updateTabMetadata(tabId) resolved: the handler returns
HandlerActivatedUpdated(h) ==
  /\ handlers[h].pc = "updateActivated"
  /\ handlers' = [handlers EXCEPT ![h] = FreeHandler]
  /\ UNCHANGED <<eventVars, tabMetadata>>
  /\ HandlerFrame

Handler(h) ==
  \/ HandlerDeactivatedLogged(h) \/ HandlerPreviousRead(h) \/ HandlerPreviousUpdated(h)
  \/ HandlerActivatedLogged(h) \/ HandlerActivatedRead(h) \/ HandlerActivatedUpdated(h)

\* ------------------------------------------------------------------------
\* The worker: initialize, the passes, activations, configuration messages
\* ------------------------------------------------------------------------
Next ==
  \/ \E kind \in {"auto", "manual"} : PassStart(kind)
  \/ Pass
  \/ \E t \in ActivatableTabs : TabActivated(t, MaxActivations)
  \/ \E h \in HandlerSlots : Handler(h)
  \/ \E threshold \in MessageThresholds : UpdateIdleThreshold(threshold)
  \/ \E targetSites \in SiteConfigs : UpdateTargetSites(targetSites)
  \/ Tick

Spec == Init /\ [][Next]_vars

\* ------------------------------------------------------------------------
\* Start-up runs: initialize from script load, with the store's open request
\* succeeding or failing, while the discard alarm may already fire
\* ------------------------------------------------------------------------
NextInit ==
  \/ PassStart("manual")
  \/ Initialize
  \/ OpenSucceeds
  \/ OpenFails
  \/ PassStart("auto")
  \/ Pass

SpecInit == InitLoad /\ [][NextInit]_vars

\* ------------------------------------------------------------------------
\* Store-level runs: updateTabMetadata applied to bounded partials on an
\* opened, cleared store (as telemetry.test.ts sets it up)
\* ------------------------------------------------------------------------
MetaTabId == 100

OptionalField(name, values) ==
  { [x \in {} |-> 0] } \cup { [f \in {name} |-> v] : v \in values }

MetaPartials ==
  { Spread(Spread(a, b), Spread(c, d)) :
      a \in OptionalField("sessionId", {"session-A", "session-B"}),
      b \in OptionalField("activationCount", {2, 10}),
      c \in OptionalField("totalActiveTime", {5000}),
      d \in { [x \in {} |-> 0] } \cup
            { [url |-> u, domain |-> UrlHostname(u)] : u \in {UrlSlack, UrlOther} } }

InitMeta ==
  /\ InitShared
  /\ activeTabId = Null
  /\ activeTabStartTime = Null
  /\ sessionId = StartClock
  /\ storageSession = [sessionId |-> StartClock]
  /\ config = DEFAULT_CONFIG
  /\ telemetryFailed = FALSE
  /\ db = "open"
  /\ initPromise = "resolved"
  /\ tabMetadata = NoMetadata
  /\ storageLocal = [x \in {} |-> 0]
  /\ alarms = NoAlarms
  /\ init = [pc |-> "done", result |-> [x \in {} |-> 0], openFailed |-> FALSE]
  /\ expectedCount = [t \in {} |-> 0]

MetaWrite(metadata) ==
  /\ writes < MaxWrites
  /\ writes' = writes + 1
  /\ updateTabMetadata(MetaTabId, metadata)
  /\ lastWrite' = [tabId |-> MetaTabId, existing |-> getTabMetadata(MetaTabId),
                   metadata |-> metadata]
  /\ UNCHANGED <<clock, ticks, db, initPromise, tabEvents, tabEventsKey,
                 discardEvents, discardEventsKey, config, telemetryFailed,
                 activeTabId, activeTabStartTime, sessionId, storageLocal,
                 storageSession, alarms, browserActive, browserDiscarded, init,
                 pass, passes, handlers, activations, messages, expectedCount, client, admin, serviced, msg>>

NextMeta == \E metadata \in MetaPartials : MetaWrite(metadata)

SpecMeta == InitMeta /\ [][NextMeta]_vars

\* ------------------------------------------------------------------------
\* Claims on updateTabMetadata (checked under SpecMeta)
\* ------------------------------------------------------------------------
CounterFields == {"activationCount", "totalActiveTime"}

WroteOnStored == lastWrite.tabId # Null /\ lastWrite.existing # Undefined

SessionChanged ==
  /\ WroteOnStored
  /\ "sessionId" \in DOMAIN lastWrite.existing
  /\ "sessionId" \in DOMAIN lastWrite.metadata
  /\ lastWrite.existing.sessionId # lastWrite.metadata.sessionId

SameSession ==
  /\ WroteOnStored
  /\ "sessionId" \in DOMAIN lastWrite.existing
  /\ "sessionId" \in DOMAIN lastWrite.metadata
  /\ lastWrite.existing.sessionId = lastWrite.metadata.sessionId

Written == tabMetadata[lastWrite.tabId]

\* C3: a write whose sessionId differs from the stored sessionId leaves the
\* counters the partial does not carry at 0 and takes url/domain/title from
\* the partial (the previous session's counters do not survive).
C3_SessionChangeResets ==
  SessionChanged =>
    /\ \A c \in CounterFields \ DOMAIN lastWrite.metadata : Written[c] = 0
    /\ \A f \in {"url", "domain", "title"} \cap DOMAIN lastWrite.metadata :
         Written[f] = lastWrite.metadata[f]

InitTrack ==
  /\ Init
  /\ db = "open"
  /\ storageLocal = [x \in {} |-> 0]
  /\ 2 \in DOMAIN tabMetadata

NextTrack ==
  \/ \E t \in ActivatableTabs : TabActivated(t, MaxTrackActivations)
  \/ \E h \in HandlerSlots : Handler(h)
  \/ Tick

SpecTrack == InitTrack /\ [][NextTrack]_vars

\* ------------------------------------------------------------------------
\* Pass runs: the discard passes of an initialized worker while time passes
\* and the configuration is changed
\* ------------------------------------------------------------------------
NextPass ==
  \/ PassStart("auto")
  \/ PassStart("manual")
  \/ Pass
  \/ \E threshold \in MessageThresholds : UpdateIdleThreshold(threshold)
  \/ \E targetSites \in SiteConfigs : UpdateTargetSites(targetSites)
  \/ Tick

SpecPass == Init /\ [][NextPass]_vars

\* ------------------------------------------------------------------------
\* Claims on the discard passes (checked under Spec)
\* ------------------------------------------------------------------------
PassRunning == pass.pc \notin {"idle", "query"}
AutoRunning == PassRunning /\ pass.kind = "auto"
Calls == {pass.calls[k] : k \in 1..Len(pass.calls)}
Decisions == {pass.decisions[k] : k \in 1..Len(pass.decisions)}

\* the tabs the claims call protected, as the queried list shows them
Protected(tab) ==
  \/ tab.discarded
  \/ tab.active
  \/ ~tab.hasUrl
  \/ tab.id = Null
  \/ StartsWith(tab.url, <<"c","h","r","o","m","e",":","/","/">>)
  \/ StartsWith(tab.url, <<"c","h","r","o","m","e","-","e","x","t","e","n","s","i","o","n",":","/","/">>)
  \/ StartsWith(tab.url, <<"c","h","r","o","m","e","-","u","n","t","r","u","s","t","e","d",":","/","/">>)

\* the lowercased hostname of a tab contains an enabled pattern of the
\* targetSites the pass started with, compared case-insensitively
HostnameMatches(tab, targetSites) ==
  /\ tab.hasUrl
  /\ UrlParses(tab.url)
  /\ \E site \in DOMAIN targetSites :
       /\ targetSites[site] = TRUE
       /\ Includes(ToLowerCase(UrlHostname(tab.url)), ToLowerCase(site))

\* C1: no pass, automatic or manual, calls chrome.tabs.discard on a tab
\* that its queried list shows as discarded, active, without URL, without id
\* or on a chrome://, chrome-extension:// or chrome-untrusted:// URL.
C1_ProtectedNeverDiscarded ==
  \A c \in Calls : ~Protected(pass.tabs[c.idx])

\* a pass has called discard while its list holds a discarded tab and a tab
\* without id that both match an enabled site, and an active tab
C1_Witness ==
  /\ Calls # {}
  /\ \E i \in 1..Len(pass.tabs) :
       pass.tabs[i].discarded /\ HostnameMatches(pass.tabs[i], pass.targetSites)
  /\ \E i \in 1..Len(pass.tabs) :
       pass.tabs[i].id = Null /\ HostnameMatches(pass.tabs[i], pass.targetSites)
  /\ \E i \in 1..Len(pass.tabs) : pass.tabs[i].active /\ pass.tabs[i].id \in ActivatableTabs

\* C2: when a pass calls chrome.tabs.discard on a tab, that tab is not the
\* tab the user is viewing at that moment.
C2_NeverDiscardsViewedTab ==
  \A c \in Calls : ~c.active

\* C6: a tab of an automatic pass that is not skipped and whose URL parses is
\* eligible with reason site-match iff its hostname contains an enabled
\* pattern (case-insensitively); disabled patterns and an empty enabled set
\* match nothing.
C6_SiteMatchIffEnabledPattern ==
  AutoRunning =>
    \A d \in Decisions :
      d.outcome \in {"site-match", "idle", "none"} =>
        (d.outcome = "site-match" <=> HostnameMatches(pass.tabs[d.idx], pass.targetSites))

\* a pass matched a host through an upper-case pattern and left alone a tab
\* whose host contains only a disabled pattern
C6_Witness ==
  /\ AutoRunning
  /\ \E d \in Decisions :
       /\ d.outcome = "site-match"
       /\ \A site \in DOMAIN pass.targetSites :
            pass.targetSites[site] => site # ToLowerCase(site)
  /\ \E d \in Decisions :
       /\ d.outcome \in {"idle", "none"}
       /\ \E site \in DOMAIN pass.targetSites :
            /\ ~pass.targetSites[site]
            /\ Includes(UrlHostname(pass.tabs[d.idx].url), ToLowerCase(site))

\* C7: first match wins: a tab whose hostname matches an enabled pattern is
\* discarded with reason site-match and its metadata is not read; reason idle
\* is given only to tabs that match no enabled pattern.
C7_SiteMatchBeforeIdle ==
  AutoRunning =>
    \A d \in Decisions :
      /\ (d.outcome \in {"site-match", "idle", "none"}
            /\ HostnameMatches(pass.tabs[d.idx], pass.targetSites))
           => /\ d.outcome = "site-match" /\ ~d.looked
              /\ \E c \in Calls : c.idx = d.idx /\ c.reason = "site-match"
      /\ d.outcome = "idle" => ~HostnameMatches(pass.tabs[d.idx], pass.targetSites)

\* a tab was taken as site-match although the store is ready, the threshold
\* is positive and its stored lastActive is older than the threshold
C7_Witness ==
  /\ AutoRunning
  /\ isReady
  /\ config.idleTabThreshold > 0
  /\ pass.idleThresholdMs > 0
  /\ \E d \in Decisions :
       /\ d.outcome = "site-match"
       /\ pass.tabs[d.idx].id \in DOMAIN tabMetadata
       /\ "lastActive" \in DOMAIN tabMetadata[pass.tabs[d.idx].id]
       /\ pass.now - tabMetadata[pass.tabs[d.idx].id].lastActive > pass.idleThresholdMs

\* C8: a tab that is evaluated while idleTabThreshold is 0 never gets reason
\* idle, in no pass and however old its lastActive is; in an automatic pass
\* during which the threshold is 0 every discard call has reason site-match.
C8_ZeroThresholdNeverIdle ==
  /\ \A d \in Decisions : d.guardThreshold = 0 => d.outcome # "idle"
  /\ (PassRunning /\ config.idleTabThreshold = 0 /\ ~pass.thresholdChanged) =>
       /\ \A d \in Decisions : d.outcome # "idle"
       /\ \A c \in Calls : c.reason \in {"site-match", "manual"}
       /\ pass.kind = "auto" => \A c \in Calls : c.reason = "site-match"

\* with threshold 0 and the store ready a tab that matches no site and has
\* an old lastActive was left alone
C8_Witness ==
  /\ AutoRunning /\ config.idleTabThreshold = 0 /\ ~pass.thresholdChanged
  /\ isReady
  /\ \E d \in Decisions :
       /\ d.outcome = "none"
       /\ d.guardThreshold = 0
       /\ pass.tabs[d.idx].id \in DOMAIN tabMetadata
       /\ "lastActive" \in DOMAIN tabMetadata[pass.tabs[d.idx].id]
       /\ pass.now - tabMetadata[pass.tabs[d.idx].id].lastActive >= HourMs

\* the idle rule of C9 for one evaluated tab, read with threshold T
IdleRuleFor(d, T) ==
  d.outcome = "idle" <=>
    /\ ~HostnameMatches(pass.tabs[d.idx], pass.targetSites)
    /\ T > 0
    /\ d.ready
    /\ d.lastActive # Null
    /\ pass.now - d.lastActive > T * 3600000

\* the values idleTabThreshold had for a tab of the running pass: at the
\* start of the pass and when the tab was evaluated
ThresholdReadings(d) ==
  {pass.idleThresholdMs \div HourMs} \cup
  (IF d.guardThreshold = Null THEN {} ELSE {d.guardThreshold})

\* C9: a tab that matches no enabled site gets reason idle exactly when
\* idleTabThreshold > 0, the store is ready, its metadata has a lastActive
\* and pass start - lastActive is strictly greater than
\* idleTabThreshold * 3600000 ms, for at least one of the values the
\* threshold had for that tab.
C9_IdleRule ==
  AutoRunning =>
    \A d \in Decisions :
      d.outcome \in {"site-match", "idle", "none"} =>
        \E T \in ThresholdReadings(d) : IdleRuleFor(d, T)

\* the same rule in the passes during which idleTabThreshold is not changed
C9_IdleRuleUnchangedThreshold ==
  (AutoRunning /\ ~pass.thresholdChanged) =>
    \A d \in Decisions :
      d.outcome \in {"site-match", "idle", "none"} =>
        IdleRuleFor(d, config.idleTabThreshold)

\* ------------------------------------------------------------------------
\* Claims on the activation handlers (checked under SpecTrack)
\* ------------------------------------------------------------------------
HandlersDone == \A h \in HandlerSlots : handlers[h].pc = "free"

\* C5: once every activation callback has returned, the activationCount of a
\* tab that had a metadata record has grown by exactly the number of its
\* activations: no update is lost.
C5_NoLostActivation ==
  HandlersDone =>
    \A t \in DOMAIN expectedCount :
      tabMetadata[t].activationCount = expectedCount[t]

\* ------------------------------------------------------------------------
\* Claims on the start-up (checked under SpecInit)
\* ------------------------------------------------------------------------
\* C10: an automatic pass that ran to its bookkeeping while the store was
\* never ready has called discard on every tab that is not protected and
\* matches an enabled site, has read no metadata and given no reason idle,
\* has written no telemetry record and has stored lastRun and
\* lastDiscardedCount; initialize is not aborted by a failed open, and when
\* it has returned after one the stored config is loaded, the discard alarm
\* of an enabled config has its interval and the retention alarm exists.
C10_TelemetryUnavailable ==
  /\ init.pc # "aborted"
  /\ (init.pc = "done" /\ init.openFailed) =>
       /\ config = LoadedConfig(storageLocal)
       /\ config.autoDiscardEnabled =>
            ALARM_NAME \in DOMAIN alarms /\ alarms[ALARM_NAME] = config.discardInterval
       /\ RETENTION_ALARM_NAME \in DOMAIN alarms
  /\ (pass.kind = "auto" /\ pass.pc = "save" /\ ~pass.readySeen) =>
       /\ \A i \in 1..Len(pass.tabs) :
            (~Protected(pass.tabs[i]) /\ HostnameMatches(pass.tabs[i], pass.targetSites))
              => \E c \in Calls : c.idx = i /\ c.reason = "site-match"
       /\ \A d \in Decisions : ~d.looked /\ d.outcome # "idle"
       /\ tabEvents = <<>> /\ discardEvents = <<>>
       /\ "lastRun" \in DOMAIN storageLocal /\ storageLocal.lastRun = clock
       /\ storageLocal.lastDiscardedCount = Len(pass.discardedTabs)

\* initialize has returned after a failed open and a pass that never saw the
\* store ready has discarded a site-matching tab, passed over a tab with an
\* old lastActive under a positive threshold and written its bookkeeping
C10_Witness ==
  /\ init.pc = "done" /\ init.openFailed
  /\ pass.kind = "auto" /\ pass.pc = "save" /\ ~pass.readySeen
  /\ \E c \in Calls : c.reason = "site-match"
  /\ \E d \in Decisions :
       /\ d.outcome = "none" /\ d.guardThreshold > 0
       /\ pass.tabs[d.idx].id \in DOMAIN tabMetadata
       /\ "lastActive" \in DOMAIN tabMetadata[pass.tabs[d.idx].id]
  /\ "lastRun" \in DOMAIN storageLocal

\* ------------------------------------------------------------------------
\* Claims on the effects of a pass (checked under SpecPass)
\* ------------------------------------------------------------------------
PassEnded == pass.pc \in {"save", "respond"}
Log == pass.log
LogOps(op) == {k \in 1..Len(Log) : Log[k].op = op}
NumberDiscarded ==
  IF pass.kind = "auto" THEN Len(pass.discardedTabs) ELSE pass.discardedCount

\* the discarded events the running pass has written
DiscardedEvents ==
  {n \in (pass.eventsBefore + 1)..Len(tabEvents) : tabEvents[n].eventType = "discarded"}

\* C11: a tab whose discard call was rejected is called once only, gets no
\* discarded event and no wasDiscarded write, is no entry of the batch list
\* and is not counted; the pass goes on: when it ends every tab of the
\* queried list has been evaluated.
C11_FailureIsolated ==
  /\ \A k \in LogOps("rejected") :
       LET i == Log[k].idx IN
         /\ Cardinality({j \in LogOps("call") : Log[j].idx = i}) = 1
         /\ \A j \in 1..Len(Log) : Log[j].idx = i => Log[j].op \in {"call", "rejected"}
         /\ \A n \in DiscardedEvents : tabEvents[n].tabId # pass.tabs[i].id
         /\ pass.tabs[i].id \in DOMAIN tabMetadata =>
              ~tabMetadata[pass.tabs[i].id].wasDiscarded
         /\ \A n \in 1..Len(pass.discardedTabs) :
              pass.discardedTabs[n].url # pass.tabs[i].url
  /\ PassRunning => NumberDiscarded = Cardinality(LogOps("resolved"))
  /\ PassEnded => \A i \in 1..Len(pass.tabs) : \E d \in Decisions : d.idx = i

\* a pass has ended in which one discard call was rejected and a call on a
\* later tab succeeded
C11_Witness ==
  /\ PassEnded
  /\ \E k \in LogOps("rejected") : \E j \in LogOps("resolved") :
       j > k /\ Log[j].idx > Log[k].idx

\* the discarded event of the running pass for the tab at position i
EventOf(i) ==
  {n \in DiscardedEvents : tabEvents[n].tabId = pass.tabs[i].id}

\* the telemetry of a discard that resolved at position k of the trace while
\* the store was ready: the event and the mark follow the resolution in this
\* order, one event is stored and the record is marked
DiscardRecorded(k) ==
  LET i == Log[k].idx
      id == pass.tabs[i].id
  IN /\ k + 2 <= Len(Log)
     /\ Log[k + 1].op = "event" /\ Log[k + 1].idx = i
     /\ Log[k + 2].op = "mark" /\ Log[k + 2].idx = i
     /\ Cardinality(EventOf(i)) = 1
     /\ \A n \in EventOf(i) : tabEvents[n].timestamp = Log[k + 1].at
     /\ id \in DOMAIN tabMetadata
     /\ tabMetadata[id].wasDiscarded
     /\ tabMetadata[id].discardedAt = Log[k + 2].at

\* every telemetry write of the trace follows the resolved discard of its tab,
\* which follows its call
WritesFollowDiscard ==
  \A k \in LogOps("event") \cup LogOps("mark") :
    \E r \in LogOps("resolved") : \E c \in LogOps("call") :
      c < r /\ r < k /\ Log[r].idx = Log[k].idx /\ Log[c].idx = Log[k].idx

\* C12 as stated: with the store ready every resolved discard is followed by
\* its discarded event and then by the wasDiscarded/discardedAt mark, no
\* event precedes the resolved discard, and every such event carries the
\* reason.
C12_DiscardedEventCarriesReason ==
  (PassRunning /\ isReady) =>
    /\ \A k \in LogOps("resolved") : DiscardRecorded(k)
    /\ WritesFollowDiscard
    /\ \A n \in DiscardedEvents : "reason" \in DOMAIN tabEvents[n]

\* C12 amended: the same, the event carrying the reason of the call in an
\* automatic pass and manual = TRUE, without a reason, in a manual pass.
C12_DiscardThenEventThenMark ==
  /\ (PassRunning /\ isReady) =>
       /\ \A k \in LogOps("resolved") : DiscardRecorded(k)
       /\ \A c \in Calls : \A n \in EventOf(c.idx) :
            IF pass.kind = "auto"
            THEN "reason" \in DOMAIN tabEvents[n] /\ tabEvents[n].reason = c.reason
                 /\ "manual" \notin DOMAIN tabEvents[n]
            ELSE "manual" \in DOMAIN tabEvents[n] /\ tabEvents[n].manual
                 /\ "reason" \notin DOMAIN tabEvents[n]
  /\ PassRunning => WritesFollowDiscard
  /\ (PassRunning /\ ~isReady) => DiscardedEvents = {}

\* an automatic pass discarded a tab as idle with the store ready and its
\* event and mark are written
C12_Witness ==
  /\ PassRunning /\ isReady /\ pass.kind = "auto"
  /\ \E c \in Calls : c.reason = "idle" /\ EventOf(c.idx) # {}
  /\ LogOps("mark") # {}

\* the batch record the running pass has appended, if any
BatchesOfPass == (pass.batchBefore + 1)..Len(discardEvents)

\* the batch record of a pass that discarded: one record with the counts of
\* the pass
OneBatchRecord ==
  /\ Cardinality(BatchesOfPass) = 1
  /\ \A n \in BatchesOfPass :
       /\ discardEvents[n].discardedCount = Cardinality(LogOps("resolved"))
       /\ discardEvents[n].discardedCount = Len(discardEvents[n].tabs)
       /\ discardEvents[n].tabs = pass.discardedTabs
       /\ discardEvents[n].totalTabs = Len(pass.tabs)
       /\ discardEvents[n].totalTabs = Len(TabStrip)

\* C13 as stated: an automatic pass that discarded at least one tab has
\* appended exactly one DiscardEvent with discardedCount = number of tabs
\* discarded = length of its tabs list and totalTabs = size of the queried
\* list; a pass that discarded none has appended none.
C13_OneBatchPerDiscardingPass ==
  (pass.kind = "auto" /\ pass.pc = "save") =>
    IF LogOps("resolved") # {} THEN OneBatchRecord ELSE BatchesOfPass = {}

\* C13 amended: the same for a pass at whose end the store is ready; a pass
\* at whose end the store is not ready appends no DiscardEvent.
C13_OneBatchWhenReady ==
  /\ (pass.kind = "auto" /\ pass.pc = "save") =>
       IF LogOps("resolved") # {} /\ isReady THEN OneBatchRecord ELSE BatchesOfPass = {}
  /\ (PassRunning /\ pass.pc # "save") => BatchesOfPass = {}

\* a pass with a rejected and a resolved discard has appended its record
C13_Witness ==
  /\ pass.kind = "auto" /\ pass.pc = "save" /\ isReady
  /\ LogOps("resolved") # {} /\ LogOps("rejected") # {}
  /\ BatchesOfPass # {}

\* an automatic pass has returned
AutoReturned ==
  /\ pass.pc = "idle"
  /\ \/ pass.outcome = "completed"
     \/ pass.outcome = "queryFailed" /\ pass.kind = "auto"

\* the bookkeeping of the running pass is stored
LastRunStored ==
  /\ "lastRun" \in DOMAIN storageLocal
  /\ "lastDiscardedCount" \in DOMAIN storageLocal
  /\ pass.now <= storageLocal.lastRun /\ storageLocal.lastRun <= clock
  /\ storageLocal.lastDiscardedCount = Cardinality(LogOps("resolved"))

C15_ManualDiscardsAll ==
  (pass.kind = "manual" /\ PassRunning) =>
    /\ \A i \in 1..Len(pass.tabs) :
         Cardinality({k \in LogOps("call") : Log[k].idx = i}) =
           (IF ~Protected(pass.tabs[i]) /\ (pass.pc = "respond" \/ i <= pass.idx)
            THEN 1 ELSE 0)
    /\ pass.discardedCount = Cardinality(LogOps("resolved"))
    /\ \A n \in DiscardedEvents :
         "manual" \in DOMAIN tabEvents[n] /\ tabEvents[n].manual = TRUE

\* a manual pass returns 2: it discarded a tab that matches no site and a tab
\* whose URL does not parse, one call was rejected, no site is enabled and
\* the idle threshold is positive
C15_Witness ==
  /\ pass.kind = "manual" /\ pass.pc = "respond"
  /\ pass.discardedCount = 2 /\ Cardinality(LogOps("rejected")) = 1
  /\ \E k \in LogOps("resolved") : ~UrlParses(pass.tabs[Log[k].idx].url)
  /\ config.targetSites = NoSites /\ config.idleTabThreshold > 0
  /\ isReady /\ Cardinality(DiscardedEvents) = 2

\* ------------------------------------------------------------------------
\* TabTelemetry seen by its callers: init(), the connection's close event
\* and the four operations that are guarded by `this.db === null'
\* ------------------------------------------------------------------------
\* init(): `if (this.initPromise !== null) return this.initPromise'
InitReuses_never(p) == FALSE
InitReuses(p) == p # "null"

\* telemetry.init() called by caller c, up to its first await. The same code
\* runs at the head of exportAllData, clearAllData, getStats and purgeOldData.
CallInit(c) ==
  /\ client.inits < MaxInitCalls
  /\ c \notin client.waiting
  /\ IF db # "null"
     THEN /\ client' = [client EXCEPT !.inits = @ + 1,
                          !.settled[c] = [state |-> "resolved", ready |-> isReady,
                                          waited |-> FALSE]]
          /\ UNCHANGED initPromise
     ELSE IF InitReuses(initPromise)
     THEN /\ client' =
               IF initPromise = "pending"
               THEN [client EXCEPT !.inits = @ + 1, !.joined = @ + 1,
                                   !.waiting = @ \cup {c},
                                   !.settled[c] = Unsettled]
               ELSE [client EXCEPT !.inits = @ + 1,
                                   !.settled[c] = [state |-> initPromise,
                                                   ready |-> isReady,
                                                   waited |-> FALSE]]
          /\ UNCHANGED initPromise
     ELSE /\ initPromise' = "pending"
          /\ client' = [client EXCEPT !.inits = @ + 1, !.opens = @ + 1,
                                      !.waiting = @ \cup {c},
                                      !.settled[c] = Unsettled]
  /\ UNCHANGED <<clock, db, storeVars, config, telemetryFailed, trackVars,
                 storageLocal, alarms, browserVars, init, pass,
                 handlers, countVars, expectedCount, admin, serviced, msg>>

\* db.onclose, fired by the browser on a connection that is open
ConnectionClosed ==
  /\ db = "open"
  /\ client.closes < MaxCloses
  /\ db' = "null"
  /\ initPromise' = PromiseAfterClose(initPromise)
  /\ client' = [client EXCEPT !.closes = @ + 1, !.lost = TRUE]
  /\ UNCHANGED <<clock, storeVars, config, telemetryFailed, trackVars,
                 storageLocal, alarms, browserVars, init, pass,
                 handlers, countVars, expectedCount, admin, serviced, msg>>

StoreOpNames == {"logTabEvent", "updateTabMetadata", "getTabMetadata", "logDiscardEvent"}
StoreOpTabId == 1
StoreOpBatch == <<[tabId |-> StoreOpTabId, url |-> UrlSlack]>>

\* one call of a guarded operation, run to completion; none of the four
\* calls init(), so db and initPromise are left as they were
StoreOp(name) ==
  /\ client.ops < MaxStoreOps
  /\ IF name = "logTabEvent"
     THEN logTabEvent(StoreOpTabId, "created", [url |-> UrlSlack])
     ELSE UNCHANGED eventVars
  /\ IF name = "updateTabMetadata"
     THEN updateTabMetadata(StoreOpTabId, [wasDiscarded |-> TRUE])
     ELSE UNCHANGED tabMetadata
  /\ IF name = "logDiscardEvent"
     THEN logDiscardEvent(StoreOpBatch, Len(TabStrip))
     ELSE UNCHANGED batchVars
  /\ UNCHANGED telemetryVars
  /\ client' = [client EXCEPT !.ops = @ + 1,
       !.lastOp = [name |-> name,
                   ready |-> isReady,
                   lost |-> client.lost,
                   changed |-> <<tabEvents', tabMetadata', discardEvents'>>
                                 # <<tabEvents, tabMetadata, discardEvents>>,
                   returned |-> IF name = "logTabEvent"
                                THEN IF isReady THEN tabEventsKey ELSE Null
                                ELSE IF name = "getTabMetadata"
                                     /\ getTabMetadata(StoreOpTabId) # Undefined
                                THEN StoreOpTabId
                                ELSE Null,
                   readyAfter |-> db' # "null"]]
  /\ UNCHANGED <<clock, lastWrite, config, telemetryFailed, trackVars,
                 storageLocal, alarms, browserVars, init, pass,
                 handlers, countVars, expectedCount, admin, serviced, msg>>

\* a TabTelemetry just constructed (db = null, initPromise = null) over a
\* database an earlier run may have filled
InitStore ==
  /\ InitShared
  /\ activeTabId = Null
  /\ activeTabStartTime = Null
  /\ sessionId = StartClock
  /\ storageSession = [sessionId |-> StartClock]
  /\ config = DEFAULT_CONFIG
  /\ telemetryFailed = FALSE
  /\ db = "null"
  /\ initPromise = "null"
  /\ tabMetadata \in StoredMetadata
  /\ storageLocal = [x \in {} |-> 0]
  /\ alarms = NoAlarms
  /\ init = [pc |-> "done", result |-> [x \in {} |-> 0], openFailed |-> FALSE]
  /\ expectedCount = [t \in {} |-> 0]

NextStore ==
  \/ \E c \in Callers : CallInit(c)
  \/ OpenSucceeds
  \/ OpenFails
  \/ ConnectionClosed
  \/ \E name \in StoreOpNames : StoreOp(name)

SpecStore == InitStore /\ [][NextStore]_vars

\* ------------------------------------------------------------------------
\* Claims about the store's connection
\* ------------------------------------------------------------------------
OpenInFlight == IF initPromise = "pending" THEN 1 ELSE 0
ResolvedCallers == {c \in Callers : client.settled[c].state = "resolved"}
RejectedCallers == {c \in Callers : client.settled[c].state = "rejected"}

\* C16: however many init() calls are made, and whenever, every open request
\* is either in flight (at most one), connected or failed; a further request
\* is issued only after a failure or a lost connection, so that callers
\* arriving while there is no connection or while one is being opened share
\* one request and one connection; on an open store init() issues nothing;
\* and a caller whose promise resolved saw isReady() true.
C16_InitIdempotent ==
  /\ client.opens = client.connections + client.failures + OpenInFlight
  /\ client.opens <= 1 + client.failures + client.closes
  /\ client.connections <= 1 + client.closes
  /\ \A c \in ResolvedCallers : client.settled[c].ready
  /\ \A c \in client.waiting : initPromise = "pending"

\* two callers joined one open request, both resolved, and a third call
\* found the store open: still one request and one connection
C16_Witness ==
  /\ client.inits = 3 /\ client.joined >= 1
  /\ client.opens = 1 /\ client.connections = 1 /\ client.closes = 0
  /\ ResolvedCallers = Callers
  /\ \E c \in Callers : client.settled[c].waited
  /\ \E c \in Callers : ~client.settled[c].waited
  /\ isReady

WritingOps == {"logTabEvent", "updateTabMetadata", "logDiscardEvent"}

\* C17: an operation called after the connection was lost (close event, no
\* connection since) leaves the store connected again and has taken effect:
\* a write has changed the stored records, a read of a stored record has
\* returned it.
C17_OperationReconnects ==
  (client.lastOp.name # "none" /\ client.lastOp.lost) =>
     /\ client.lastOp.readyAfter
     /\ client.lastOp.name \in WritingOps => client.lastOp.changed
     /\ client.lastOp.name = "getTabMetadata" => client.lastOp.returned # Null

\* C18: the close event resets the connection and the cached promise
\* together: a resolved promise is cached only while the store is ready, the
\* store is not ready while the connection is lost, every init() after the
\* close event is answered by a fresh open request (none is resolved from the
\* stale promise without waiting while the store is not ready), and each
\* close event allows one more connection.
C18_CloseResetsBoth ==
  /\ initPromise = "resolved" => isReady
  /\ client.lost => ~isReady
  /\ \A c \in ResolvedCallers : client.settled[c].ready
  /\ client.closes >= 1 /\ ~isReady /\ client.waiting # {} => initPromise = "pending"
  /\ client.connections <= 1 + client.closes

\* the connection was lost and a later init() opened a second one
C18_Witness ==
  /\ client.closes = 1 /\ client.connections = 2 /\ client.opens = 2
  /\ isReady /\ ~client.lost /\ initPromise = "resolved"
  /\ \E c \in ResolvedCallers : client.settled[c].waited /\ client.settled[c].ready

\* C19: a failed open rejects the promise of every caller that awaited it
\* and of no one else: a caller sees a rejection only from an open request it
\* waited for, with the store not ready; while no connection has been made
\* the store stays not ready; and no rejection stays cached, so that an
\* init() made after the failure starts a new request.
C19_OpenFailureSurfaced ==
  /\ \A c \in RejectedCallers :
        client.settled[c].waited /\ ~client.settled[c].ready
  /\ client.connections = 0 => ~isReady
  /\ RejectedCallers # {} => client.failures >= 1
  /\ client.failures >= 1 /\ ~isReady /\ OpenInFlight = 0 => initPromise = "null"

\* the first open failed and rejected its caller; a later init() issued a
\* second request, which connected
C19_Witness ==
  /\ client.failures = 1 /\ client.opens = 2 /\ client.connections = 1
  /\ client.closes = 0 /\ isReady
  /\ \E c \in RejectedCallers : client.settled[c].waited
  /\ \E c \in ResolvedCallers : client.settled[c].waited

\* C20: an operation called on a store that is not ready changes no stored
\* record, leaves the store not ready, and returns nothing: logTabEvent no
\* key, getTabMetadata no record even where one is stored.
C20_NotReadyDegrades ==
  (client.lastOp.name # "none" /\ ~client.lastOp.ready) =>
     /\ ~client.lastOp.changed
     /\ ~client.lastOp.readyAfter
     /\ client.lastOp.returned = Null

\* a record is stored for the tab, the store is not ready, and logTabEvent
\* was called after another operation
C20_Witness ==
  /\ client.lastOp.name = "logTabEvent" /\ ~client.lastOp.ready
  /\ client.ops = 2 /\ client.connections = 0
  /\ StoreOpTabId \in DOMAIN tabMetadata
  /\ tabEvents = <<>> /\ discardEvents = <<>>

\* ------------------------------------------------------------------------
\* purgeOldData, clearAllData, getStats and exportAllData on an open store.
\* Each awaits one request per object store; other callers may write and
\* time may pass between two requests.  admin.before is the store when the
\* call started, admin.swept what each sweep found, admin.dirty whether a
\* record was written since the call started, admin.dirtyBetween whether one
\* was written between the start of the purge before and that of this one,
\* admin.statsOf / exportOf the store the last getStats / exportAllData
\* started on and statsClean / exportClean whether it returned with nothing
\* written meanwhile, admin.cleared whether clearAllData returned with
\* nothing written since it started.
\* ------------------------------------------------------------------------
Records == [tabEvents |-> tabEvents, tabMetadata |-> tabMetadata,
            discardEvents |-> discardEvents]

\* IDBKeyRange.upperBound(cutoffTimestamp): the bound itself is in the range
InRange_open(timestamp, cutoff) == timestamp < cutoff
InRange(timestamp, cutoff) == timestamp <= cutoff

\* deleteOlderThan: the cursor over index 'timestamp' deletes every record in
\* the range and counts it
Swept(records, cutoff) == {k \in 1..Len(records) : InRange(records[k].timestamp, cutoff)}
Remaining_keepsBoundary(records, cutoff) ==
  LET Keep(r) == r.timestamp >= cutoff IN SelectSeq(records, Keep)
Remaining(records, cutoff) ==
  LET Keep(r) == ~InRange(r.timestamp, cutoff) IN SelectSeq(records, Keep)

\* purgeOldData issues no request on tabMetadata ("We don't purge
\* tabMetadata as it's keyed by tabId, not timestamp")
MetadataAfterPurge_byLastUpdated(metadata, cutoff) ==
  [t \in {u \in DOMAIN metadata : metadata[u].lastUpdated > cutoff} |-> metadata[t]]
MetadataAfterPurge(metadata, cutoff) == metadata

\* retentionDays passed by the callers; the largest is the longest retention
\* whose cutoff arithmetic stays within the model checker's 32-bit integers
\* (Date.now() itself is a double and does not overflow)
LongRetention == 24
RetentionDays == {0, 1, LongRetention}

AdminIdle == admin.pc \in {"idle", "returned"} /\ admin.ops < MaxAdminOps /\ db = "open"

AdminBegin(name) ==
  [admin EXCEPT !.name = name, !.ops = @ + 1, !.now = clock, !.before = Records,
                !.swept = NoRecords, !.dirty = FALSE, !.idx = 0,
                !.eventsDeleted = 0, !.discardsDeleted = 0]

AdminFrame ==
  UNCHANGED <<clock, telemetryVars, tabEventsKey, discardEventsKey, lastWrite, config,
              telemetryFailed, trackVars, storageLocal, alarms, browserVars, init,
              pass, handlers, countVars, expectedCount, client, serviced, msg>>

\* purgeOldData up to the await of deleteOlderThan('tabEvents', cutoff)
PurgeStart(retentionDays) ==
  /\ AdminIdle
  /\ LET cutoffTimestamp == clock - retentionDays * 24 * 60 * 60 * 1000 IN
       /\ tabEvents' = Remaining(tabEvents, cutoffTimestamp)
       /\ admin' = [AdminBegin("purge") EXCEPT
                      !.pc = "events", !.purges = @ + 1,
                      !.retentionDays = retentionDays,
                      !.prevCutoff = admin.cutoff, !.cutoff = cutoffTimestamp,
                      !.dirtyBetween = admin.dirtySincePurge,
                      !.dirtySincePurge = FALSE,
                      !.swept = [NoRecords EXCEPT !.tabEvents = tabEvents],
                      !.eventsDeleted = Cardinality(Swept(tabEvents, cutoffTimestamp))]
  /\ UNCHANGED <<tabMetadata, discardEvents>>
  /\ AdminFrame

\* eventsDeleted is assigned; deleteOlderThan('discardEvents', cutoff) is issued
PurgeEventsDeleted ==
  /\ admin.name = "purge" /\ admin.pc = "events"
  /\ discardEvents' = Remaining(discardEvents, admin.cutoff)
  /\ admin' = [admin EXCEPT
                 !.pc = "discards",
                 !.swept.discardEvents = discardEvents,
                 !.discardsDeleted = Cardinality(Swept(discardEvents, admin.cutoff))]
  /\ tabMetadata' = MetadataAfterPurge(tabMetadata, admin.cutoff)
  /\ UNCHANGED tabEvents
  /\ AdminFrame

\* const stores: ObjectStoreName[] of clearAllData
ClearStores_eventsOnly == <<"tabEvents", "discardEvents">>
ClearStores == <<"tabEvents", "tabMetadata", "discardEvents">>

\* store.clear() on object store storeName
StoreCleared(storeName) ==
  /\ tabEvents' = IF storeName = "tabEvents" THEN <<>> ELSE tabEvents
  /\ tabMetadata' = IF storeName = "tabMetadata" THEN NoMetadata ELSE tabMetadata
  /\ discardEvents' = IF storeName = "discardEvents" THEN <<>> ELSE discardEvents

\* clearAllData: store.clear() on each of ClearStores in turn, one await each
ClearBegun ==
  /\ AdminIdle
  /\ StoreCleared(ClearStores[1])
  /\ admin' = [AdminBegin("clear") EXCEPT !.pc = "clearing", !.idx = 1]

ClearStart ==
  /\ ClearBegun
  /\ AdminFrame

ClearNext ==
  /\ admin.name = "clear" /\ admin.pc = "clearing"
  /\ IF admin.idx < Len(ClearStores)
     THEN /\ StoreCleared(ClearStores[admin.idx + 1])
          /\ admin' = [admin EXCEPT !.idx = @ + 1]
     ELSE /\ admin' = [admin EXCEPT !.pc = "returned", !.cleared = ~admin.dirty]
          /\ UNCHANGED <<tabEvents, tabMetadata, discardEvents>>
  /\ AdminFrame

\* getStats: countStore on the three object stores in turn
StatsBegun ==
  /\ AdminIdle
  /\ admin' = [AdminBegin("stats") EXCEPT
                 !.pc = "events", !.statsOf = Records, !.statsClean = FALSE,
                 !.totalEvents = Len(tabEvents), !.totalTabs = 0, !.totalDiscards = 0]
  /\ UNCHANGED <<tabEvents, tabMetadata, discardEvents>>

StatsStart ==
  /\ StatsBegun
  /\ AdminFrame

StatsNext ==
  /\ admin.name = "stats" /\ admin.pc \in {"events", "metadata"}
  /\ admin' = IF admin.pc = "events"
              THEN [admin EXCEPT !.pc = "metadata",
                                 !.totalTabs = Cardinality(DOMAIN tabMetadata)]
              ELSE [admin EXCEPT !.pc = "discards",
                                 !.totalDiscards = Len(discardEvents)]
  /\ UNCHANGED <<tabEvents, tabMetadata, discardEvents>>
  /\ AdminFrame

\* exportAllData: exportDate, then getAllFromStore on the three object stores
ExportBegun ==
  /\ AdminIdle
  /\ admin' = [AdminBegin("export") EXCEPT
                 !.pc = "events", !.exportOf = Records, !.exportClean = FALSE,
                 !.exportDate = clock,
                 !.exported = [NoRecords EXCEPT !.tabEvents = tabEvents]]
  /\ UNCHANGED <<tabEvents, tabMetadata, discardEvents>>

ExportStart ==
  /\ ExportBegun
  /\ AdminFrame

ExportNext ==
  /\ admin.name = "export" /\ admin.pc \in {"events", "metadata"}
  /\ admin' = IF admin.pc = "events"
              THEN [admin EXCEPT !.pc = "metadata", !.exported.tabMetadata = tabMetadata]
              ELSE [admin EXCEPT !.pc = "discards", !.exported.discardEvents = discardEvents]
  /\ UNCHANGED <<tabEvents, tabMetadata, discardEvents>>
  /\ AdminFrame

\* the last request has completed and the call returns its result
AdminReturns ==
  /\ admin.pc = "discards"
  /\ admin' = [admin EXCEPT
                 !.pc = "returned",
                 !.statsClean = IF admin.name = "stats" THEN ~admin.dirty ELSE @,
                 !.exportClean = IF admin.name = "export" THEN ~admin.dirty ELSE @]
  /\ UNCHANGED <<tabEvents, tabMetadata, discardEvents>>
  /\ AdminFrame

AdminWriteKinds == {"event", "metadata", "batch"}
AdminTabId == 7

\* another caller records something at the current time
AdminWrite(kind) ==
  /\ admin.written < MaxAdminWrites
  /\ IF kind = "event"
     THEN logTabEvent(AdminTabId, "created", [url |-> UrlSlack])
     ELSE UNCHANGED eventVars
  /\ IF kind = "metadata"
     THEN updateTabMetadata(AdminTabId, [url |-> UrlSlack])
     ELSE UNCHANGED tabMetadata
  /\ IF kind = "batch"
     THEN logDiscardEvent(StoreOpBatch, Len(TabStrip))
     ELSE UNCHANGED batchVars
  /\ admin' = [admin EXCEPT !.written = @ + 1, !.dirty = TRUE,
                             !.dirtySincePurge = TRUE, !.cleared = FALSE]
  /\ UNCHANGED <<clock, telemetryVars, lastWrite, config, telemetryFailed, trackVars,
                 storageLocal, alarms, browserVars, init, pass, handlers, countVars,
                 expectedCount, client, serviced, msg>>

\* records of an earlier run whose timestamps lie on both sides of, and on,
\* the cutoffs of purgeOldData(LongRetention), (1) and (0) at AdminClock and
\* one millisecond later
AdminClock == LongRetention * DayMs + 2
StoredTimestamps ==
  <<2, 3, 4, AdminClock - DayMs, AdminClock - DayMs + 1, AdminClock - DayMs + 2,
    AdminClock, AdminClock>>
StoredEvents ==
  [k \in 1..Len(StoredTimestamps) |->
     [id |-> k, tabId |-> AdminTabId, eventType |-> "created",
      timestamp |-> StoredTimestamps[k]]]
StoredBatches ==
  [k \in 1..Len(StoredTimestamps) |->
     [id |-> k, timestamp |-> StoredTimestamps[k], discardedCount |-> 0,
      totalTabs |-> 1, tabs |-> <<>>]]

InitAdmin ==
  /\ clock = AdminClock
  /\ ticks = 0
  /\ \/ /\ tabEvents = StoredEvents /\ tabEventsKey = Len(StoredEvents) + 1
        /\ discardEvents = StoredBatches /\ discardEventsKey = Len(StoredBatches) + 1
        /\ tabMetadata \in StoredMetadata
     \/ /\ tabEvents = <<>> /\ tabEventsKey = 1
        /\ discardEvents = <<>> /\ discardEventsKey = 1
        /\ tabMetadata = NoMetadata
  /\ browserActive = 4
  /\ browserDiscarded = InitiallyDiscarded
  /\ pass = IdlePass
  /\ passes = 0
  /\ handlers = [h \in HandlerSlots |-> FreeHandler]
  /\ activations = 0
  /\ messages = 0
  /\ writes = 0
  /\ lastWrite = NoWrite
  /\ client = NoClient
  /\ admin = NoAdmin
  /\ serviced = <<>>
  /\ msg = NoMsg
  /\ activeTabId = Null
  /\ activeTabStartTime = Null
  /\ sessionId = StartClock
  /\ storageSession = [sessionId |-> StartClock]
  /\ config = DEFAULT_CONFIG
  /\ telemetryFailed = FALSE
  /\ db = "open"
  /\ initPromise = "resolved"
  /\ storageLocal = [x \in {} |-> 0]
  /\ alarms = NoAlarms
  /\ init = [pc |-> "done", result |-> [x \in {} |-> 0], openFailed |-> FALSE]
  /\ expectedCount = [t \in {} |-> 0]

NextAdmin ==
  \/ \E retentionDays \in RetentionDays : PurgeStart(retentionDays)
  \/ PurgeEventsDeleted
  \/ ClearStart
  \/ ClearNext
  \/ StatsStart
  \/ StatsNext
  \/ ExportStart
  \/ ExportNext
  \/ AdminReturns
  \/ \E kind \in AdminWriteKinds : AdminWrite(kind)
  \/ Tick

SpecAdmin == InitAdmin /\ [][NextAdmin]_vars

\* ------------------------------------------------------------------------
\* Claims about retention, clearing and reporting
\* ------------------------------------------------------------------------
RangeOf(records) == {records[k] : k \in 1..Len(records)}
PurgeSweptEvents == admin.name = "purge" /\ admin.pc \in {"events", "discards", "returned"}
PurgeSweptDiscards == admin.name = "purge" /\ admin.pc \in {"discards", "returned"}

\* of the records a sweep found, those at or before the cutoff are gone, the
\* later ones are still stored, and `deleted' counts the former
SweepExact(found, stored, deleted) ==
  /\ \A r \in RangeOf(found) :
        IF r.timestamp > admin.cutoff THEN r \in RangeOf(stored)
                                      ELSE r \notin RangeOf(stored)
  /\ deleted = Cardinality({k \in 1..Len(found) : found[k].timestamp <= admin.cutoff})

\* C21: purgeOldData(retentionDays) uses cutoff = now - retentionDays * 86400000;
\* each sweep removes exactly the records it found with timestamp <= cutoff,
\* keeps those with timestamp > cutoff and returns the number removed; records
\* written at or after the call's own time survive a purge with
\* retentionDays > 0, and purge(0) leaves no record found with timestamp <= now.
C21_PurgeExact ==
  /\ admin.name = "purge" => admin.cutoff = admin.now - admin.retentionDays * DayMs
  /\ PurgeSweptEvents =>
       SweepExact(admin.swept.tabEvents, tabEvents, admin.eventsDeleted)
  /\ PurgeSweptDiscards =>
       SweepExact(admin.swept.discardEvents, discardEvents, admin.discardsDeleted)
  /\ (PurgeSweptEvents /\ admin.retentionDays = 0) =>
       \A r \in RangeOf(admin.swept.tabEvents) :
          r.timestamp <= admin.now => r \notin RangeOf(tabEvents)
  /\ (PurgeSweptEvents /\ admin.retentionDays > 0) =>
       \A r \in RangeOf(admin.swept.tabEvents) :
          r.timestamp >= admin.now => r \in RangeOf(tabEvents)

\* a purge has returned that found, in both families, a record exactly at
\* the cutoff (removed) and one a millisecond later (kept)
C21_Witness ==
  /\ admin.name = "purge" /\ admin.pc = "returned"
  /\ admin.eventsDeleted >= 2 /\ admin.discardsDeleted >= 2
  /\ \E r \in RangeOf(admin.swept.tabEvents) : r.timestamp = admin.cutoff
  /\ \E r \in RangeOf(tabEvents) : r.timestamp = admin.cutoff + 1
  /\ \E r \in RangeOf(admin.swept.discardEvents) : r.timestamp = admin.cutoff
  /\ \E r \in RangeOf(discardEvents) : r.timestamp = admin.cutoff + 1

SecondPurgeReturned ==
  /\ admin.name = "purge" /\ admin.pc = "returned" /\ admin.purges >= 2
  /\ ~admin.dirtyBetween /\ ~admin.dirty
NothingFurther ==
  /\ admin.eventsDeleted = 0 /\ admin.discardsDeleted = 0
  /\ admin.before = Records

\* C22 as stated: a purge repeated with the same or a later cutoff, nothing
\* having been written since the purge before it started, deletes nothing
\* (0 and 0 returned, store as it was when the call started).
C22_RepeatedPurgeSameOrLater ==
  (SecondPurgeReturned /\ admin.cutoff >= admin.prevCutoff) => NothingFurther

\* C22 amended: a purge repeated with the same or an earlier cutoff, nothing
\* having been written since the purge before it started, deletes nothing
\* (0 and 0 returned, store as it was when the call started).
C22_RepeatedPurgeSameOrEarlier ==
  (SecondPurgeReturned /\ admin.cutoff <= admin.prevCutoff) => NothingFurther

\* two purges with the same cutoff have run on the stored records, the first
\* of which removed some of them and kept others
C22_Witness ==
  /\ SecondPurgeReturned /\ admin.ops = 2 /\ admin.cutoff = admin.prevCutoff
  /\ Len(tabEvents) \in 1..(Len(StoredEvents) - 1)
  /\ Len(discardEvents) \in 1..(Len(StoredBatches) - 1)

\* the step of clearAllData that issues store.clear() on tabMetadata
ClearsMetadata ==
  /\ admin'.name = "clear" /\ admin'.idx # admin.idx
  /\ ClearStores[admin'.idx] = "tabMetadata"
PurgeStep == admin'.name = "purge" /\ admin' # admin /\ admin'.written = admin.written

\* C23: no step of purgeOldData changes tabMetadata, whatever retentionDays
\* is, and a tabId that has a metadata record keeps one in every step except
\* the step of clearAllData that clears the metadata store.
C23_MetadataOnlyCleared ==
  [][ /\ PurgeStep => tabMetadata' = tabMetadata
      /\ ~ClearsMetadata => DOMAIN tabMetadata \subseteq DOMAIN tabMetadata' ]_vars

\* purgeOldData(0) has returned having removed events and batches, and the
\* metadata records, all last updated before the cutoff, are as they were
C23_Witness ==
  /\ admin.name = "purge" /\ admin.pc = "returned" /\ admin.retentionDays = 0
  /\ admin.eventsDeleted > 0 /\ admin.discardsDeleted > 0
  /\ DOMAIN tabMetadata # {} /\ tabMetadata = admin.before.tabMetadata
  /\ \A t \in DOMAIN tabMetadata : tabMetadata[t].lastUpdated <= admin.cutoff

Returned(name) == admin.name = name /\ admin.pc = "returned"

\* C24: when clearAllData has returned and nothing was written since it
\* started, the three families are empty, a getStats that has run since
\* reports 0, 0, 0 and an exportAllData that has run since returns three
\* empty collections and its export time; and a getStats and an
\* exportAllData that ran undisturbed on the same store contents agree:
\* each count is the number of records exported for that family.
C24_ClearEmptiesAll ==
  /\ admin.cleared => Records = NoRecords
  /\ (admin.cleared /\ Returned("stats")) =>
        admin.totalEvents = 0 /\ admin.totalTabs = 0 /\ admin.totalDiscards = 0
  /\ (admin.cleared /\ Returned("export")) =>
        admin.exported = NoRecords /\ admin.exportDate = admin.now /\ admin.now # Null
  /\ (admin.statsClean /\ admin.exportClean /\ admin.statsOf = admin.exportOf) =>
        /\ admin.totalEvents = Len(admin.exported.tabEvents)
        /\ admin.totalTabs = Cardinality(DOMAIN admin.exported.tabMetadata)
        /\ admin.totalDiscards = Len(admin.exported.discardEvents)

\* a store that held events, metadata and batches was cleared, and the
\* export made afterwards has returned
C24_Witness ==
  /\ admin.cleared /\ Returned("export")
  /\ tabEventsKey > 1 /\ discardEventsKey > 1 /\ admin.written = 0
  /\ admin.exported.tabEvents = <<>> /\ admin.exported.discardEvents = <<>>
  /\ DOMAIN admin.exported.tabMetadata = {}

\* the step of purgeOldData that sweeps tabEvents, the step of clearAllData
\* that clears it
SweepsEvents == admin'.name = "purge" /\ admin'.purges # admin.purges
ClearsEvents ==
  /\ admin'.name = "clear" /\ admin'.idx # admin.idx
  /\ ClearStores[admin'.idx] = "tabEvents"

\* C25: in every step, a TabEvent that is new has an id no smaller than the
\* key generator's value, which then exceeds it and never decreases, so the
\* id is greater than every id assigned before; a stored TabEvent is either
\* still stored unchanged or gone; and one that is gone was removed by the
\* retention sweep, having timestamp <= cutoff, or by clearAllData.
C25_EventsAppendOnly ==
  [][ /\ tabEventsKey' >= tabEventsKey
      /\ \A q \in RangeOf(tabEvents') :
            /\ q.id < tabEventsKey'
            /\ q \in RangeOf(tabEvents) \/ q.id >= tabEventsKey
            /\ \A r \in RangeOf(tabEvents) : q.id = r.id => q = r
      /\ \A r \in RangeOf(tabEvents) \ RangeOf(tabEvents') :
            \/ SweepsEvents /\ r.timestamp <= admin'.cutoff
            \/ ClearsEvents ]_vars

\* after a sweep removed some stored events and kept others, an event was
\* appended and got the next id
C25_Witness ==
  /\ admin.purges >= 1 /\ admin.eventsDeleted >= 1 /\ admin.written >= 1
  /\ Len(tabEvents) >= 2
  /\ tabEvents[Len(tabEvents)].id = Len(StoredEvents) + 1
  /\ tabEventsKey = Len(StoredEvents) + 2

\* ------------------------------------------------------------------------
\* Activation runs: the user switches between tabs 1 and 2, starting on
\* tab 1, on an opened store in which tab 2 may have no metadata record
\* ------------------------------------------------------------------------
FirstActive == 1

InitActive ==
  /\ clock = StartClock
  /\ ticks = 0
  /\ tabEvents = <<>>
  /\ tabEventsKey = 1
  /\ discardEvents = <<>>
  /\ discardEventsKey = 1
  /\ browserActive = FirstActive
  /\ browserDiscarded = InitiallyDiscarded
  /\ pass = IdlePass
  /\ passes = 0
  /\ handlers = [h \in HandlerSlots |-> FreeHandler]
  /\ activations = 0
  /\ messages = 0
  /\ writes = 0
  /\ lastWrite = NoWrite
  /\ client = NoClient
  /\ admin = NoAdmin
  /\ serviced = <<>>
  /\ msg = NoMsg
  /\ activeTabId = FirstActive
  /\ activeTabStartTime = 2
  /\ sessionId = 1
  /\ storageSession = [activeTabId |-> FirstActive, activeTabStartTime |-> 2,
                       sessionId |-> 1]
  /\ storageLocal = [x \in {} |-> 0]
  /\ config = DEFAULT_CONFIG
  /\ db = "open"
  /\ initPromise = "resolved"
  /\ telemetryFailed = FALSE
  /\ tabMetadata \in StoredMetadata
  /\ alarms = AlarmsAfterInitialize(config)
  /\ init = [pc |-> "done", result |-> [existing |-> FALSE], openFailed |-> FALSE]
  /\ expectedCount = [t \in DOMAIN tabMetadata |-> tabMetadata[t].activationCount]

SpecActive == InitActive /\ [][NextTrack]_vars

\* ------------------------------------------------------------------------
\* Claims on what an activation records (checked under SpecActive)
\* ------------------------------------------------------------------------
Activations == {k \in 1..Len(serviced) : serviced[k].event = "activated" /\ serviced[k].ready}
Deactivations ==
  {k \in Activations : serviced[k].previousTabId # Null /\ serviced[k].previousStartTime # Null}
ActiveTimeOf(k) == serviced[k].at - serviced[k].previousStartTime

RECURSIVE SumActiveTime(_, _)
SumActiveTime(p, k) ==
  IF k = 0 THEN 0
  ELSE SumActiveTime(p, k - 1)
       + (IF k \in Deactivations /\ serviced[k].previousTabId = p THEN ActiveTimeOf(k) ELSE 0)

DeactivatedEvent(k) ==
  \E j \in 1..Len(tabEvents) :
     /\ tabEvents[j].eventType = "deactivated"
     /\ tabEvents[j].tabId = serviced[k].previousTabId
     /\ tabEvents[j].timestamp = serviced[k].at
     /\ tabEvents[j].activeTime = ActiveTimeOf(k)

\* the stored records start with totalActiveTime 0 (StoredRecord)
StoredActiveTime == 0

\* C26: once every activation callback has returned, each activation made
\* while a previous tab was tracked has a deactivated event of the previous
\* tab carrying activeTime = now - the previous tab's start, and the
\* totalActiveTime of every tab that has a metadata record has grown by
\* exactly the active times of its deactivations.
C26_ActiveTimeRecorded ==
  HandlersDone =>
    /\ \A k \in Deactivations : DeactivatedEvent(k)
    /\ \A p \in DOMAIN tabMetadata :
          tabMetadata[p].totalActiveTime = StoredActiveTime + SumActiveTime(p, Len(serviced))

\* the event half of C26 alone
C26_DeactivatedEventCarriesActiveTime ==
  HandlersDone => \A k \in Deactivations : DeactivatedEvent(k)

ActivatedEvent(k) ==
  \E j \in 1..Len(tabEvents) :
     /\ tabEvents[j].eventType = "activated"
     /\ tabEvents[j].tabId = serviced[k].tabId
     /\ tabEvents[j].timestamp >= serviced[k].at

\* the metadata of the tab activated in serviced[k] shows the activation
ActivationCounted(k) ==
  LET t == serviced[k].tabId IN
    /\ t \in DOMAIN tabMetadata
    /\ "lastActive" \in DOMAIN tabMetadata[t]
    /\ tabMetadata[t].lastActive >= serviced[k].at
    /\ tabMetadata[t].activationCount >= 1
    /\ t \in DOMAIN expectedCount => tabMetadata[t].activationCount = expectedCount[t]

\* C27: the tab of the latest activation is the tracked current tab, with
\* its start time; and once every activation callback has returned, each
\* activation handled on a ready store has its activated event and shows in
\* the tab's metadata (activationCount grown by one per activation,
\* lastActive not before the activation), whether or not the tab had a
\* metadata record.
C27_ActivationRecorded ==
  /\ (Len(serviced) > 0 /\ serviced[Len(serviced)].event = "activated") =>
        /\ activeTabId = serviced[Len(serviced)].tabId
        /\ activeTabStartTime = serviced[Len(serviced)].at
  /\ HandlersDone =>
        \A k \in Activations : ActivatedEvent(k) /\ ActivationCounted(k)

\* the part of C27 that does not depend on the metadata record
C27_CurrentTabAndEvent ==
  /\ (Len(serviced) > 0 /\ serviced[Len(serviced)].event = "activated") =>
        /\ activeTabId = serviced[Len(serviced)].tabId
        /\ activeTabStartTime = serviced[Len(serviced)].at
  /\ HandlersDone => \A k \in Activations : ActivatedEvent(k)

\* the deactivated events in the order they were appended
DeactivatedEvents == SelectSeq(tabEvents, LAMBDA e : e.eventType = "deactivated")

\* the activations in the order they were serviced, all on a ready store
ReadyActivations == SelectSeq(serviced, LAMBDA a : a.event = "activated" /\ a.ready)

\* the tab that was active, and since when, immediately before the i-th
\* activation
ActiveBefore(i) ==
  IF i = 1 THEN [tabId |-> FirstActive, since |-> 2]
  ELSE [tabId |-> serviced[i - 1].tabId, since |-> serviced[i - 1].at]

CreatedTabs == {2, 3, 7}     \* a valid URL, an unparsable URL, no URL
UpdatedTabs == {1, 3}
WindowId == 1

TabEventFrame ==
  UNCHANGED <<clock, telemetryVars, batchVars, lastWrite, config, telemetryFailed,
              trackVars, storageLocal, alarms, browserVars, init, pass, countVars,
              expectedCount, client, msg>>

TabEventsLeft == Len(serviced) < MaxTabEvents /\ \E h \in HandlerSlots : handlers[h].pc = "free"

Serviced(event, t, loading) ==
  Append(serviced,
    [event |-> event, tabId |-> t, at |-> clock, ready |-> isReady,
     previousTabId |-> Null, previousStartTime |-> Null, restored |-> init.pc # "loadSession",
     url |-> IF TabStrip[t].hasUrl THEN TabStrip[t].url ELSE <<>>, loading |-> loading,
     alone |-> \A h \in HandlerSlots : handlers[h].pc = "free"])

\* the metadata handleTabCreated writes for a tab whose URL parses
CreatedMetadata(tab) ==
  Spread([url |-> tab.url, domain |-> UrlHostname(tab.url), windowId |-> WindowId,
          openerTabId |-> Null, createdAt |-> clock],
         IF sessionId # Null THEN [sessionId |-> sessionId] ELSE [x \in {} |-> 0])

\* chrome.tabs.onCreated: handleTabCreated up to the await of logTabEvent
TabCreated(t) ==
  /\ TabEventsLeft
  /\ serviced' = Serviced("created", t, FALSE)
  /\ IF ~isReady
     THEN UNCHANGED <<eventVars, handlers>>
     ELSE /\ logTabEvent(t, "created",
               Spread(IF TabStrip[t].hasUrl THEN [url |-> TabStrip[t].url]
                                            ELSE [x \in {} |-> 0],
                      [windowId |-> WindowId, index |-> t, openerTabId |-> Null]))
          /\ handlers' = [handlers EXCEPT ![FreeSlot] =
               [FreeHandler EXCEPT !.pc = "logCreated", !.tabId = t]]
  /\ UNCHANGED <<tabMetadata, admin>>
  /\ TabEventFrame

\* the created event is stored: the metadata is written when the tab has a
\* non-empty URL that new URL() accepts; a TypeError is caught and the
\* handler returns
HandlerCreatedLogged(h) ==
  /\ handlers[h].pc = "logCreated"
  /\ LET tab == TabStrip[handlers[h].tabId] IN
       IF tab.hasUrl /\ Len(tab.url) > 0 /\ UrlParses(tab.url)
       THEN /\ updateTabMetadata(tab.id, CreatedMetadata(tab))
            /\ handlers' = [handlers EXCEPT ![h].pc = "updateCreated"]
       ELSE /\ handlers' = [handlers EXCEPT ![h] = FreeHandler]
            /\ UNCHANGED tabMetadata
  /\ UNCHANGED <<eventVars, admin, serviced, msg>>
  /\ TabEventFrame

\* the reload check of handleTabUpdated: getTabMetadata is issued for a
\* loading tab that has a URL, otherwise the handler returns
ReloadCheck(h) ==
  IF handlers[h].loading /\ TabStrip[handlers[h].tabId].hasUrl
  THEN [handlers EXCEPT ![h].pc = "getReload",
                        ![h].metadata = getTabMetadata(handlers[h].tabId)]
  ELSE [handlers EXCEPT ![h] = FreeHandler]

\* chrome.tabs.onUpdated: handleTabUpdated up to its first await
TabUpdated(t, urlChanged, loading) ==
  /\ TabEventsLeft
  /\ serviced' = Serviced("updated", t, loading)
  /\ IF ~isReady
     THEN UNCHANGED <<eventVars, handlers>>
     ELSE LET started == [handlers EXCEPT ![FreeSlot] =
                            [FreeHandler EXCEPT !.tabId = t, !.loading = loading]] IN
          IF urlChanged
          THEN /\ logTabEvent(t, "updated", [url |-> TabStrip[t].url])
               /\ handlers' = [started EXCEPT ![FreeSlot].pc = "logUpdated"]
          ELSE /\ UNCHANGED eventVars
               /\ handlers' = [h \in HandlerSlots |->
                                 IF h = FreeSlot
                                 THEN IF loading /\ TabStrip[t].hasUrl
                                      THEN [started[h] EXCEPT !.pc = "getReload",
                                                              !.metadata = getTabMetadata(t)]
                                      ELSE FreeHandler
                                 ELSE handlers[h]]
  /\ UNCHANGED <<tabMetadata, admin>>
  /\ TabEventFrame

\* the updated event is stored: url and domain are written when
\* changeInfo.url parses, else the handler goes on to the reload check
HandlerUpdatedLogged(h) ==
  /\ handlers[h].pc = "logUpdated"
  /\ LET url == TabStrip[handlers[h].tabId].url IN
       IF UrlParses(url)
       THEN /\ updateTabMetadata(handlers[h].tabId, [url |-> url, domain |-> UrlHostname(url)])
            /\ handlers' = [handlers EXCEPT ![h].pc = "updateUrl"]
       ELSE /\ handlers' = ReloadCheck(h)
            /\ UNCHANGED tabMetadata
  /\ UNCHANGED <<eventVars, admin, serviced, msg>>
  /\ TabEventFrame

HandlerUrlUpdated(h) ==
  /\ handlers[h].pc = "updateUrl"
  /\ handlers' = ReloadCheck(h)
  /\ UNCHANGED <<eventVars, tabMetadata, admin, serviced, msg>>
  /\ TabEventFrame

\* metadata?.wasDiscarded === true && metadata.discardedAt !== undefined
WasDiscarded(metadata) ==
  /\ metadata # Undefined
  /\ metadata.wasDiscarded
  /\ "discardedAt" \in DOMAIN metadata

\* the record read by the reload check has arrived
HandlerReloadRead(h) ==
  /\ handlers[h].pc = "getReload"
  /\ IF WasDiscarded(handlers[h].metadata)
     THEN /\ logTabEvent(handlers[h].tabId, "reloaded",
               [url |-> TabStrip[handlers[h].tabId].url,
                timeSinceDiscard |->
                  clock - (IF handlers[h].metadata.discardedAt = Null THEN 0
                           ELSE handlers[h].metadata.discardedAt)])
          /\ handlers' = [handlers EXCEPT ![h].pc = "logReloaded"]
     ELSE /\ handlers' = [handlers EXCEPT ![h] = FreeHandler]
          /\ UNCHANGED eventVars
  /\ UNCHANGED <<tabMetadata, admin, serviced, msg>>
  /\ TabEventFrame

\* the reloaded event is stored: the discard mark is cleared
HandlerReloadedLogged(h) ==
  /\ handlers[h].pc = "logReloaded"
  /\ updateTabMetadata(handlers[h].tabId, [wasDiscarded |-> FALSE, discardedAt |-> Null])
  /\ handlers' = [handlers EXCEPT ![h].pc = "updateReload"]
  /\ UNCHANGED <<eventVars, admin, serviced, msg>>
  /\ TabEventFrame

\* the last updateTabMetadata of a handler resolved: the handler returns
HandlerReturns(h) ==
  /\ handlers[h].pc \in {"updateCreated", "updateReload"}
  /\ handlers' = [handlers EXCEPT ![h] = FreeHandler]
  /\ UNCHANGED <<eventVars, tabMetadata, admin, serviced, msg>>
  /\ TabEventFrame

\* a pass discarded tab t: void updateTabMetadata(tabId, {wasDiscarded: true,
\* discardedAt: Date.now()})
TabDiscarded(t) ==
  /\ Len(serviced) < MaxTabEvents
  /\ serviced' = Serviced("discarded", t, FALSE)
  /\ updateTabMetadata(t, [wasDiscarded |-> TRUE, discardedAt |-> clock])
  /\ UNCHANGED <<eventVars, handlers, admin>>
  /\ TabEventFrame

TabHandler(h) ==
  \/ HandlerCreatedLogged(h) \/ HandlerUpdatedLogged(h) \/ HandlerUrlUpdated(h)
  \/ HandlerReloadRead(h) \/ HandlerReloadedLogged(h) \/ HandlerReturns(h)

NextTabs ==
  \/ \E t \in CreatedTabs : TabCreated(t)
  \/ \E t \in UpdatedTabs, urlChanged \in BOOLEAN, loading \in BOOLEAN :
        (urlChanged \/ loading) /\ TabUpdated(t, urlChanged, loading)
  \/ \E t \in UpdatedTabs : TabDiscarded(t)
  \/ \E h \in HandlerSlots : TabHandler(h)
  \/ Tick

SpecTabs == InitActive /\ [][NextTabs]_vars

\* a created tab the store was ready for, whose URL is non-empty and is
\* rejected by new URL()
CreatedMalformed(k) ==
  /\ serviced[k].event = "created"
  /\ serviced[k].ready
  /\ Len(serviced[k].url) > 0
  /\ ~UrlParses(serviced[k].url)

\* C28: once the handlers have returned, a tab created with a URL whose
\* hostname cannot be parsed has a metadata record holding url, windowId,
\* openerTabId, createdAt and sessionId, with only the domain left out.
C28_MalformedUrlKeepsMetadata ==
  HandlersDone =>
    \A k \in DOMAIN serviced :
      CreatedMalformed(k) =>
        /\ serviced[k].tabId \in DOMAIN tabMetadata
        /\ {"url", "windowId", "openerTabId", "createdAt", "sessionId"}
             \subseteq DOMAIN tabMetadata[serviced[k].tabId]
        /\ tabMetadata[serviced[k].tabId].url = serviced[k].url
        /\ "domain" \notin DOMAIN tabMetadata[serviced[k].tabId]

\* what the handler does for such a tab: the created event is stored and
\* the handler writes nothing to the tab's metadata
C28_MalformedUrlOnlyLogged ==
  HandlersDone =>
    \A k \in DOMAIN serviced :
      CreatedMalformed(k) =>
        /\ \E e \in DOMAIN tabEvents :
             /\ tabEvents[e].tabId = serviced[k].tabId
             /\ tabEvents[e].eventType = "created"
        /\ serviced[k].tabId \in DOMAIN tabMetadata =>
             "createdAt" \notin DOMAIN tabMetadata[serviced[k].tabId]

\* the contrast: a tab created with a URL that parses gets the whole record
C28_ParsedUrlWritesMetadata ==
  HandlersDone =>
    \A k \in DOMAIN serviced :
      (/\ serviced[k].event = "created"
       /\ serviced[k].ready
       /\ Len(serviced[k].url) > 0
       /\ UrlParses(serviced[k].url)) =>
        /\ serviced[k].tabId \in DOMAIN tabMetadata
        /\ {"url", "domain", "windowId", "openerTabId", "createdAt", "sessionId"}
             \subseteq DOMAIN tabMetadata[serviced[k].tabId]

\* serviced entries of tab t: its discards, and its loading updates the
\* handler acts on
DiscardOf(t, k) == serviced[k].event = "discarded" /\ serviced[k].tabId = t
LoadingOf(t, k) ==
  /\ serviced[k].event = "updated"
  /\ serviced[k].tabId = t
  /\ serviced[k].loading
  /\ serviced[k].ready

\* discards of t that a loading update followed before t was discarded again
ReloadedDiscards(t) ==
  {k \in DOMAIN serviced :
     /\ DiscardOf(t, k)
     /\ \E j \in DOMAIN serviced :
          /\ j > k
          /\ LoadingOf(t, j)
          /\ \A d \in (k + 1)..(j - 1) : ~DiscardOf(t, d)}

ReloadedEvents(t) ==
  {e \in DOMAIN tabEvents : tabEvents[e].tabId = t /\ tabEvents[e].eventType = "reloaded"}

\* t's last discard has been followed by a loading update
LastDiscardReloaded(t) ==
  \E k \in ReloadedDiscards(t) : \A d \in DOMAIN serviced : d > k => ~DiscardOf(t, d)

\* C29: once the handlers have returned, a tab has exactly one reloaded event
\* per discard that a loading update followed, each carrying the time since
\* a discard of the tab, and a tab whose last discard was followed by a
\* loading update has wasDiscarded = false and discardedAt = null.
C29_OneReloadedPerDiscard ==
  HandlersDone =>
    \A t \in UpdatedTabs :
      /\ Cardinality(ReloadedEvents(t)) = Cardinality(ReloadedDiscards(t))
      /\ \A e \in ReloadedEvents(t) :
           \E k \in ReloadedDiscards(t) :
             tabEvents[e].timeSinceDiscard = tabEvents[e].timestamp - serviced[k].at
      /\ LastDiscardReloaded(t) =>
           /\ ~tabMetadata[t].wasDiscarded
           /\ tabMetadata[t].discardedAt = Null

\* what holds when the events are serviced one after the other (no handler
\* is running when an event is delivered): exactly one reloaded event per
\* discard that a loading update followed, and the mark is cleared
C29_SequentialReloadTracked ==
  (HandlersDone /\ \A k \in DOMAIN serviced : serviced[k].alone) =>
    \A t \in UpdatedTabs :
      /\ Cardinality(ReloadedEvents(t)) = Cardinality(ReloadedDiscards(t))
      /\ \A e \in ReloadedEvents(t) :
           \E k \in DOMAIN serviced :
             /\ DiscardOf(t, k)
             /\ tabEvents[e].timeSinceDiscard = tabEvents[e].timestamp - serviced[k].at
      /\ LastDiscardReloaded(t) =>
           /\ ~tabMetadata[t].wasDiscarded
           /\ tabMetadata[t].discardedAt = Null

\* the run that breaks C29: tab 1 is discarded once, two loading updates of
\* it follow, and both handlers have appended a reloaded event
C29_ReloadedTwice ==
  /\ HandlersDone
  /\ Len(serviced) = 3
  /\ DiscardOf(1, 1)
  /\ LoadingOf(1, 2)
  /\ LoadingOf(1, 3)
  /\ Cardinality(ReloadedEvents(1)) = 2

\* t has been discarded and no loading update of it has been serviced since
DiscardedNotReloaded(t) ==
  \E k \in DOMAIN serviced :
    /\ DiscardOf(t, k)
    /\ \A j \in DOMAIN serviced : j > k => ~LoadingOf(t, j)

\* C36: the discard mark follows the tab's state. wasDiscarded = true always
\* comes with a non-null discardedAt; once the handlers have returned it is
\* set only for a tab that was discarded and has not entered loading since,
\* every discard that a loading update followed has its reloaded event, and
\* there are no more reloaded events than such discards.
C36_MarkFollowsDiscardState ==
  \A t \in UpdatedTabs :
    t \in DOMAIN tabMetadata =>
      /\ tabMetadata[t].wasDiscarded => tabMetadata[t].discardedAt # Null
      /\ HandlersDone =>
           /\ tabMetadata[t].wasDiscarded => DiscardedNotReloaded(t)
           /\ Cardinality(ReloadedEvents(t)) >= Cardinality(ReloadedDiscards(t))
           /\ Cardinality(ReloadedEvents(t)) <= Cardinality(ReloadedDiscards(t))

\* the parts that hold in every interleaving: the mark comes with its time,
\* it is not left set after a reload, and no reload of a discarded tab
\* whose mark was in the store goes unrecorded
C36_MarkHasTimeAndIsCleared ==
  \A t \in UpdatedTabs :
    t \in DOMAIN tabMetadata =>
      /\ tabMetadata[t].wasDiscarded => tabMetadata[t].discardedAt # Null
      /\ HandlersDone =>
           /\ tabMetadata[t].wasDiscarded => DiscardedNotReloaded(t)
           /\ Cardinality(ReloadedEvents(t)) >= Cardinality(ReloadedDiscards(t))

\* a handler that read the mark of the first discard clears the mark of the
\* second: tab 1 is discarded, has not entered loading since, and its
\* record says it is not discarded
C36_NewerMarkCleared ==
  /\ HandlersDone
  /\ Len(serviced) = 3
  /\ DiscardOf(1, 1)
  /\ LoadingOf(1, 2)
  /\ DiscardOf(1, 3)
  /\ ~tabMetadata[1].wasDiscarded

\* ------------------------------------------------------------------------
\* Restart runs: the worker script is loaded again within a browser session
\* (session storage holds what the last activation saved) and tab
\* activations are delivered while initialize runs
\* ------------------------------------------------------------------------
InitRestart ==
  /\ InitShared
  /\ activeTabId = Null
  /\ activeTabStartTime = Null
  /\ sessionId = Null
  /\ storageSession = [activeTabId |-> browserActive, activeTabStartTime |-> 2, sessionId |-> 1]
  /\ config = DEFAULT_CONFIG
  /\ telemetryFailed = FALSE
  /\ db = "null"
  /\ initPromise = "null"
  /\ tabMetadata \in StoredMetadata
  /\ storageLocal \in StoredConfigs
  /\ alarms \in StoredAlarms
  /\ init = [pc |-> "loadSession", result |-> storageSession, openFailed |-> FALSE]
  /\ expectedCount = [t \in DOMAIN tabMetadata |-> tabMetadata[t].activationCount]

\* chrome.storage.session.get is served at some point between the call and
\* its resolution: after a set that was issued in between, or before it
SessionGetServed ==
  /\ init.pc = "loadSession"
  /\ init.result # storageSession
  /\ init' = [init EXCEPT !.result = storageSession]
  /\ UNCHANGED <<clock, telemetryVars, storeVars, config, telemetryFailed, trackVars,
                 storageLocal, alarms, browserVars, pass, handlers, countVars,
                 expectedCount, client, admin, serviced, msg>>

NextRestart ==
  \/ Initialize
  \/ OpenSucceeds
  \/ OpenFails
  \/ SessionGetServed
  \/ \E t \in ActivatableTabs : TabActivated(t, MaxRestartActivations)
  \/ \E h \in HandlerSlots : Handler(h)
  \/ Tick

SpecRestart == InitRestart /\ [][NextRestart]_vars

LastServiced == serviced[Len(serviced)]

\* every activation callback started after loadActiveTabState had restored
\* the in-memory state
RestoredBeforeActivation ==
  \A k \in DOMAIN serviced : serviced[k].event = "activated" => serviced[k].restored

\* after the restore, the in-memory state is that of the latest activation
RestoreKeepsNewer ==
  (init.pc # "loadSession" /\ serviced # <<>>) =>
    /\ activeTabId = LastServiced.tabId
    /\ activeTabStartTime = LastServiced.at

\* session storage holds the latest activation
PersistedOnActivation ==
  serviced # <<>> =>
    /\ storageSession.activeTabId = LastServiced.tabId
    /\ storageSession.activeTabStartTime = LastServiced.at

\* C30: the tracking state is saved to session storage on every activation;
\* after a restart no activation callback runs before the state is restored,
\* and the restore does not replace the state a newer activation set.
C30_RestoredBeforeEvents ==
  /\ PersistedOnActivation
  /\ RestoredBeforeActivation
  /\ RestoreKeepsNewer

\* C39: the session identifier is stable within a browser session: once a
\* sessionId is in session storage, no step replaces it with null or with
\* another value.
C39_SessionIdStable ==
  [][storageSession.sessionId # Null =>
       storageSession'.sessionId = storageSession.sessionId]_vars

\* the restart has completed and the worker runs under another sessionId
\* than the one the browser session had stored
C39_SessionIdReplaced ==
  /\ init.pc = "done"
  /\ sessionId # Null
  /\ sessionId # 1
  /\ storageSession.sessionId = sessionId

\* ------------------------------------------------------------------------
\* Claims on the manual pass (checked under SpecPass)
\* ------------------------------------------------------------------------
\* the tabs the pass has discarded since the previous state
NewlyDiscarded == browserDiscarded' \ browserDiscarded

\* C40: manual discard-all leaves the pass bookkeeping untouched. No step
\* of a manual pass appends a batch record or writes storage.local (lastRun,
\* lastDiscardedCount); a step that discards a tab on a ready store appends
\* one discarded event of that tab, marked manual, and sets wasDiscarded and
\* discardedAt in that tab's metadata and nothing else; every other step of
\* the pass leaves the three stores as they are.
C40_ManualLeavesBookkeeping ==
  [][(pass.kind = "manual" \/ pass'.kind = "manual") =>
       /\ UNCHANGED <<discardEvents, discardEventsKey, storageLocal>>
       /\ IF NewlyDiscarded = {} \/ ~isReady
          THEN UNCHANGED <<tabEvents, tabMetadata>>
          ELSE /\ Cardinality(NewlyDiscarded) = 1
               /\ Len(tabEvents') = Len(tabEvents) + 1
               /\ SubSeq(tabEvents', 1, Len(tabEvents)) = tabEvents
               /\ \A t \in NewlyDiscarded :
                    /\ tabEvents'[Len(tabEvents')].tabId = t
                    /\ tabEvents'[Len(tabEvents')].eventType = "discarded"
                    /\ tabEvents'[Len(tabEvents')].manual
                    /\ tabMetadata'[t].wasDiscarded
                    /\ tabMetadata'[t].discardedAt = clock
                    /\ \A x \in DOMAIN tabMetadata' :
                         x # t => /\ x \in DOMAIN tabMetadata
                                  /\ tabMetadata'[x] = tabMetadata[x]]_vars

\* a manual pass on a ready store has discarded two tabs and is about to
\* answer: two events were appended, no batch record, no lastRun
C40_Witness ==
  /\ pass.kind = "manual"
  /\ pass.pc = "respond"
  /\ isReady
  /\ pass.discardedCount = 2
  /\ Len(tabEvents) = pass.eventsBefore + 2
  /\ Len(discardEvents) = pass.batchBefore
  /\ "lastRun" \notin DOMAIN storageLocal

\* ------------------------------------------------------------------------
\* Claims on passes that run while initialize is still opening the store
\* (checked under SpecInit)
\* ------------------------------------------------------------------------
\* C31: an automatic pass that was started during initialisation and reached
\* its bookkeeping with the store open has evaluated the idle rule for every
\* tab that no site matched under a positive threshold, has written one
\* discarded event per tab it discarded and, when it discarded, one batch
\* record.
C31_PassAwaitsReadiness ==
  (pass.kind = "auto" /\ pass.pc = "save" /\ db = "open") =>
    /\ \A d \in Decisions :
         (d.outcome = "none" /\ d.guardThreshold # Null /\ d.guardThreshold > 0) => d.looked
    /\ Cardinality(DiscardedEvents) = Len(pass.discardedTabs)
    /\ Len(pass.discardedTabs) > 0 => Cardinality(BatchesOfPass) = 1

\* what the pass does instead: whatever it decided while isReady() was false
\* stays as decided, without a metadata read and without a discarded event
C31_NotReadyNotRevisited ==
  \A d \in Decisions : ~d.ready => ~d.looked

\* a pass that found the store not ready for a tab and ended with it open
C31_EndedAfterOpen ==
  /\ pass.kind = "auto" /\ pass.pc = "save" /\ db = "open"
  /\ Len(pass.discardedTabs) > 0
  /\ Cardinality(DiscardedEvents) < Len(pass.discardedTabs)

\* ------------------------------------------------------------------------
\* chrome.runtime.onMessage and handleMessage, one action per await; every
\* sendResponse call is appended to msg.replies
\* ------------------------------------------------------------------------
MessageEnabled == BOOLEAN
MessageIntervals == {15, 999}         \* a valid and an out-of-range interval
MessageIdleThresholds == {1, 9999}    \* a valid and an out-of-range threshold

FreeMsgSlot == CHOOSE h \in MsgSlots :
                 msg.slots[h].pc = "free" /\ \A k \in MsgSlots : msg.slots[k].pc = "free" => h <= k

\* the listener calls handleMessage(message, sendResponse)
MessageArrives ==
  /\ msg.requests < MaxRequests
  /\ \E h \in MsgSlots : msg.slots[h].pc = "free"

\* {success: true, ...payload}, or what the catch block sends
Response_alwaysSuccess(raised, payload) == [success |-> TRUE, error |-> FALSE, payload |-> payload]
Response(raised, payload) ==
  IF raised THEN [success |-> FALSE, error |-> TRUE, payload |-> {}]
  ELSE [success |-> TRUE, error |-> FALSE, payload |-> payload]

\* handleMessage suspends at an await
Suspended(action, value, pc) ==
  [msg EXCEPT !.requests = @ + 1,
              !.overlapped = @ \/ \E h \in MsgSlots : msg.slots[h].pc # "free",
              !.slots[FreeMsgSlot] = [pc |-> pc, id |-> msg.requests + 1, action |-> action]]

\* sendResponse(response) for request id
Sent(m, id, action, value, raised, response) ==
  [m EXCEPT !.replies = Append(@, [id |-> id, action |-> action, value |-> value,
                                   raised |-> raised, response |-> response])]

\* handleMessage answers without having awaited anything
Answered(action, value) ==
  Sent([msg EXCEPT !.requests = @ + 1,
                   !.overlapped = @ \/ \E h \in MsgSlots : msg.slots[h].pc # "free"],
       msg.requests + 1, action, value, FALSE,
       Response(FALSE, {}))

\* a suspended handleMessage resumes and answers
Resumed(h, raised, payload) ==
  Sent([msg EXCEPT !.slots[h] = FreeMsg], msg.slots[h].id, msg.slots[h].action, Null,
       raised, Response(raised, payload))

MsgFrame ==
  UNCHANGED <<clock, telemetryVars, telemetryFailed, trackVars, storageLocal, browserActive,
              init, handlers, activations, messages, writes, ticks, expectedCount, client,
              serviced>>

\* toggleAutoDiscard: the flag is set, then startAutoDiscard or
\* stopAutoDiscard runs up to the await of chrome.alarms.clear
MsgToggleAutoDiscard(enabled) ==
  /\ MessageArrives
  /\ config' = [config EXCEPT !.autoDiscardEnabled = enabled]
  /\ alarms' = WithoutAlarm(ALARM_NAME)
  /\ msg' = Suspended("toggleAutoDiscard", enabled, IF enabled THEN "startClear" ELSE "stopClear")
  /\ UNCHANGED <<storeVars, browserDiscarded, pass, passes, admin>>
  /\ MsgFrame

\* updateTargetSites
MsgUpdateTargetSites(targetSites) ==
  /\ MessageArrives
  /\ config' = [config EXCEPT !.targetSites = targetSites]
  /\ msg' = Answered("updateTargetSites", 0)
  /\ UNCHANGED <<storeVars, alarms, browserDiscarded, pass, passes, admin>>
  /\ MsgFrame

\* updateInterval: a valid interval is stored and, when auto-discard is
\* enabled, startAutoDiscard runs up to the await of chrome.alarms.clear
MsgUpdateInterval(interval) ==
  /\ MessageArrives
  /\ config' = IF isValidDiscardInterval(interval)
               THEN [config EXCEPT !.discardInterval = interval] ELSE config
  /\ IF isValidDiscardInterval(interval) /\ config.autoDiscardEnabled
     THEN /\ alarms' = WithoutAlarm(ALARM_NAME)
          /\ msg' = Suspended("updateInterval", interval, "startClear")
     ELSE /\ UNCHANGED alarms
          /\ msg' = Answered("updateInterval", interval)
  /\ UNCHANGED <<storeVars, browserDiscarded, pass, passes, admin>>
  /\ MsgFrame

\* updateIdleThreshold
MsgUpdateIdleThreshold(threshold) ==
  /\ MessageArrives
  /\ config' = IF isValidIdleThreshold(threshold)
               THEN [config EXCEPT !.idleTabThreshold = threshold] ELSE config
  /\ msg' = Answered("updateIdleThreshold", threshold)
  /\ UNCHANGED <<storeVars, alarms, browserDiscarded, pass, passes, admin>>
  /\ MsgFrame

\* startAutoDiscard: chrome.alarms.clear resolved, chrome.alarms.create is
\* issued with the discardInterval the config holds now
AlarmPeriod_default(cfg) == DEFAULT_CONFIG.discardInterval
AlarmPeriod(cfg) == cfg.discardInterval

MsgAlarmCleared(h) ==
  /\ msg.slots[h].pc = "startClear"
  /\ alarms' = WithAlarm(ALARM_NAME, AlarmPeriod(config))
  /\ msg' = [msg EXCEPT !.slots[h].pc = "startCreate"]
  /\ UNCHANGED <<storeVars, config, browserDiscarded, pass, passes, admin>>
  /\ MsgFrame

\* startAutoDiscard or stopAutoDiscard returned: sendResponse({success: true})
MsgAlarmDone(h) ==
  /\ msg.slots[h].pc \in {"startCreate", "stopClear"}
  /\ msg' = Resumed(h, FALSE, {})
  /\ UNCHANGED <<storeVars, config, alarms, browserDiscarded, pass, passes, admin>>
  /\ MsgFrame

\* discardAll: discardAllTabs issues chrome.tabs.query
MsgDiscardAll ==
  /\ MessageArrives
  /\ PassBegun("manual")
  /\ msg' = Suspended("discardAll", 0, "discardAll")
  /\ UNCHANGED <<storeVars, config, alarms, browserDiscarded, admin>>
  /\ MsgFrame

\* discardAllTabs returned its count: sendResponse({success: true, count})
MsgDiscardAllReturned(h) ==
  /\ msg.slots[h].pc = "discardAll"
  /\ pass.pc = "respond"
  /\ pass' = [IdlePass EXCEPT !.outcome = "responded"]
  /\ msg' = Resumed(h, FALSE, {"count"})
  /\ UNCHANGED <<storeVars, config, alarms, browserDiscarded, passes, admin>>
  /\ MsgFrame

\* chrome.tabs.query rejected: discardAllTabs throws and the catch block
\* sends {success: false, error}
MsgDiscardAllThrew(h) ==
  /\ msg.slots[h].pc = "discardAll"
  /\ pass.pc = "query"
  /\ pass' = [IdlePass EXCEPT !.outcome = "queryFailed", !.kind = pass.kind]
  /\ msg' = Resumed(h, TRUE, {})
  /\ UNCHANGED <<storeVars, config, alarms, browserDiscarded, passes, admin>>
  /\ MsgFrame

TelemetryActions == {"exportTelemetry", "clearTelemetry", "getTelemetryStats"}

\* exportTelemetry, clearTelemetry, getTelemetryStats: the TabTelemetry call
\* runs up to its first request on the open store
MsgTelemetry(action) ==
  /\ MessageArrives
  /\ \A h \in MsgSlots : msg.slots[h].pc # "telemetry"
  /\ CASE action = "exportTelemetry" -> ExportBegun
       [] action = "clearTelemetry" -> ClearBegun
       [] action = "getTelemetryStats" -> StatsBegun
  /\ msg' = Suspended(action, 0, "telemetry")
  /\ UNCHANGED <<tabEventsKey, discardEventsKey, lastWrite, config, alarms, browserDiscarded,
                 pass, passes>>
  /\ MsgFrame

\* the payload handleMessage adds for each telemetry action
TelemetryPayload(action) ==
  CASE action = "exportTelemetry" -> {"data"}
    [] action = "clearTelemetry" -> {}
    [] action = "getTelemetryStats" -> {"stats"}

\* the TabTelemetry call returned: sendResponse({success: true, ...})
MsgTelemetryReturned(h) ==
  /\ msg.slots[h].pc = "telemetry"
  /\ admin.pc = "returned"
  /\ msg' = Resumed(h, FALSE, TelemetryPayload(msg.slots[h].action))
  /\ UNCHANGED <<storeVars, config, alarms, browserDiscarded, pass, passes, admin>>
  /\ MsgFrame

MsgHandler(h) ==
  \/ MsgAlarmCleared(h) \/ MsgAlarmDone(h) \/ MsgDiscardAllReturned(h)
  \/ MsgDiscardAllThrew(h) \/ MsgTelemetryReturned(h)

\* Message runs: an initialized worker with the store open answers messages
InitMsg ==
  /\ Init
  /\ db = "open"
  /\ 2 \in DOMAIN tabMetadata

NextMsg ==
  \/ \E enabled \in MessageEnabled : MsgToggleAutoDiscard(enabled)
  \/ \E targetSites \in {NoSites} : MsgUpdateTargetSites(targetSites)
  \/ \E interval \in MessageIntervals : MsgUpdateInterval(interval)
  \/ \E threshold \in MessageIdleThresholds : MsgUpdateIdleThreshold(threshold)
  \/ MsgDiscardAll
  \/ \E action \in TelemetryActions : MsgTelemetry(action)
  \/ \E h \in MsgSlots : MsgHandler(h)
  \/ PassQueryDone
  \/ PassDiscardDone
  \/ PassDiscardFails
  \/ ClearNext
  \/ StatsNext
  \/ ExportNext
  \/ AdminReturns

SpecMsg == InitMsg /\ [][NextMsg]_vars

\* ------------------------------------------------------------------------
\* Claims on the message channel (checked under SpecMsg)
\* ------------------------------------------------------------------------
RepliesTo(id) == {k \in DOMAIN msg.replies : msg.replies[k].id = id}
Running(id) == \E h \in MsgSlots : msg.slots[h].pc # "free" /\ msg.slots[h].id = id

\* a request whose handler has returned has one response, a running one
\* has none; a response says success exactly when the handler did not raise
OneResponseEach ==
  /\ \A id \in 1..msg.requests :
       Cardinality(RepliesTo(id)) = (IF Running(id) THEN 0 ELSE 1)
  /\ \A k \in DOMAIN msg.replies :
       /\ msg.replies[k].response.success = ~msg.replies[k].raised
       /\ msg.replies[k].response.error = msg.replies[k].raised
       /\ msg.replies[k].raised => msg.replies[k].response.payload = {}

OutOfRange(reply) ==
  /\ reply.value # Null
  /\ \/ reply.action = "updateInterval" /\ reply.value \notin {5, 10, 15, 30}
     \/ reply.action = "updateIdleThreshold" /\ (reply.value < 0 \/ reply.value > 720)

\* this step answers an updateInterval or updateIdleThreshold whose value is
\* out of range
InvalidUpdateAnswered ==
  /\ Len(msg'.replies) = Len(msg.replies) + 1
  /\ OutOfRange(msg'.replies[Len(msg'.replies)])

\* C32: every request of a supported action gets exactly one response,
\* {success: true, ...payload} or, when the handler raised, {success: false,
\* error}; an out-of-range updateInterval or updateIdleThreshold is answered
\* {success: true} and changes neither the configuration nor the alarms.
C32_OneResponseEach ==
  [][/\ OneResponseEach'
     /\ InvalidUpdateAnswered =>
          /\ msg'.replies[Len(msg'.replies)].response.success
          /\ config' = config
          /\ alarms' = alarms]_vars

\* three requests were answered: a discardAll whose query was rejected, with
\* {success: false, error}, and an out-of-range update, with {success: true}
C32_Witness ==
  /\ msg.requests = MaxRequests
  /\ \A id \in 1..msg.requests : ~Running(id)
  /\ \E k \in DOMAIN msg.replies :
       msg.replies[k].action = "discardAll" /\ ~msg.replies[k].response.success
  /\ \E k \in DOMAIN msg.replies :
       OutOfRange(msg.replies[k]) /\ msg.replies[k].response.success
  /\ \E k \in DOMAIN msg.replies :
       msg.replies[k].response.payload # {}

MsgQuiet == \A h \in MsgSlots : msg.slots[h].pc = "free"
DiscardAlarmSet == ALARM_NAME \in DOMAIN alarms

ThresholdsHeld(d) ==
  {LoadedConfig(storageLocal).idleTabThreshold, pass.idleThresholdMs \div HourMs,
   d.guardThreshold}

\* C34: every tab a pass decides to discard with reason idle has been idle,
\* at the pass start, for more than T hours for a positive threshold T that
\* the configuration held.
C34_IdleByConfiguredThreshold ==
  \A d \in Decisions :
    d.outcome = "idle" =>
      \E T \in ThresholdsHeld(d) :
        /\ T > 0
        /\ pass.now - d.lastActive > T * HourMs

\* ------------------------------------------------------------------------
\* Reuse runs: tabs are created under ids that already have a metadata
\* record, and an automatic pass runs with the idle rule enabled
\* ------------------------------------------------------------------------
InitReuse ==
  /\ Init
  /\ db = "open"
  /\ 2 \in DOMAIN tabMetadata
  /\ config.idleTabThreshold = 1

NextReuse ==
  \/ \E t \in CreatedTabs : TabCreated(t)
  \/ \E h \in HandlerSlots : HandlerCreatedLogged(h)
  \/ \E h \in HandlerSlots : HandlerReturns(h)
  \/ PassStart("auto")
  \/ PassQueryDone
  \/ PassMetadataRead
  \/ PassDiscardDone
  \/ PassSaved
  \/ Tick

SpecReuse == InitReuse /\ [][NextReuse]_vars

\* the tab of decision d was created, with the store ready, before the pass
\* started
CreatedBeforePass(d, k) ==
  /\ serviced[k].event = "created"
  /\ serviced[k].ready
  /\ serviced[k].tabId = pass.tabs[d.idx].id
  /\ serviced[k].at < pass.now

\* C35: a tab that a pass decides to discard as idle was last active, by the
\* lastActive the decision used, no earlier than its own creation: a
\* lastActive recorded under the same tabId before the tab was created is
\* not in force.
C35_IdleByOwnLastActive ==
  \A d \in Decisions :
    d.outcome = "idle" =>
      \A k \in DOMAIN serviced : CreatedBeforePass(d, k) => d.lastActive >= serviced[k].at

\* the creation write keeps the lastActive of the record it merges into
C35_CreationKeepsLastActive ==
  [][\A h \in HandlerSlots :
       (handlers[h].pc = "logCreated" /\ handlers'[h].pc = "updateCreated"
        /\ handlers[h].tabId \in DOMAIN tabMetadata
        /\ "lastActive" \in DOMAIN tabMetadata[handlers[h].tabId]) =>
          tabMetadata'[handlers[h].tabId].lastActive = tabMetadata[handlers[h].tabId].lastActive]_vars

\* C38: once every message handler has completed, the discard alarm exists
\* if and only if config.autoDiscardEnabled is true, also when the handlers
\* overlapped.
C38_AlarmIffEnabled ==
  MsgQuiet => (DiscardAlarmSet <=> config.autoDiscardEnabled)

\* the run of the claim's own example: an enable and then a disable were
\* handled, overlapping, both have answered, auto-discard is disabled and
\* the alarm is scheduled
C38_AlarmLeftWhileDisabled ==
  /\ MsgQuiet
  /\ msg.overlapped
  /\ Len(msg.replies) = 2
  /\ \A k \in DOMAIN msg.replies :
       msg.replies[k].action = "toggleAutoDiscard" /\ ~msg.replies[k].raised
  /\ ~config.autoDiscardEnabled
  /\ DiscardAlarmSet

====
